---- MODULE Spec2Model ----
(***************************************************************************)
(* Model of the Gemini back end of codex-api: the streaming response       *)
(* parser (sse/gemini.rs, process_gemini_sse), the endpoint client         *)
(* (endpoint/gemini.rs, GeminiClient::stream), its batch replay            *)
(* (emit_gemini_events), the request builder (requests/gemini.rs) and the  *)
(* event channel between a producer task and the consumer.                 *)
(*                                                                         *)
(* Option<T> is modelled as a sequence of length at most one: None is <<>> *)
(* and Some(x) is <<x>>.  Strings are TLA+ strings, String::push_str and   *)
(* join("") are \o.                                                        *)
(***************************************************************************)
EXTENDS Integers, Sequences, FiniteSets, TLC

VARIABLES
    pc,                     \* position of the modelled call: "start", "client", "sse", "batch", "closing", "done", "failed", "built", "checked"
    polled,                 \* every result the loop of process_gemini_sse has polled so far
    assistant_item,         \* process_gemini_sse: Option<ResponseItem>
    completed_sent,         \* process_gemini_sse: bool
    last_usage,             \* process_gemini_sse: Option<GeminiUsageMetadata>
    function_call_counter,  \* process_gemini_sse / emit_gemini_events: counter of synthesized call ids
    sent,                   \* items sent on the event channel, in order
    chan,                   \* Option<capacity> of the mpsc channel of the ResponseStream
    policy,                 \* retry policy of the provider
    attempts,               \* outcome of every transport attempt made by the executor
    response,               \* Option<GeminiResponse> moved into the batch producer task
    stream_result,          \* Option<Result<ResponseStream, ApiError>> returned to the caller
    base_url,               \* Option of provider.base_url of the client
    model,                  \* Option of the model argument of stream()
    url,                    \* Option of the URL stream() sends its requests to
    outbox,                 \* items the producer has still to send in its current iteration
    queue,                  \* items buffered in the mpsc channel
    rx,                     \* the receiver of the ResponseStream: "none", "alive", "dropped"
    received,               \* items the consumer has received, in order
    discarded,              \* items whose send failed, in order
    command,                \* Option of the command given to check_command_against_deny_list
    security_policy,        \* Option of the policy given to it
    check_result,           \* Option<DenyListCheckResult> it returned
    prompt,                 \* Option of the arguments of GeminiRequestBuilder::new
    request,                \* Option<Result<GeminiRequest, ApiError>> returned by build
    headers,                \* provider.headers of the client
    auth,                   \* the auth provider of the client: Option of its bearer token
    request_body,           \* Option of the body argument of stream()
    extra_headers,          \* the extra_headers argument of stream()
    requests,               \* the requests handed to transport.execute, one per attempt
    tasks,                  \* the producer tasks spawned, each with the channel its Sender feeds
    streams                 \* two calls served at once: per call, the producer's locals and the channel

vars == <<pc, polled, assistant_item, completed_sent, last_usage,
          function_call_counter, sent, chan, policy, attempts, response,
          stream_result, base_url, model, url, outbox, queue, rx, received,
          discarded, command, security_policy, check_result, prompt, request,
          headers, auth, request_body, extra_headers, requests, tasks, streams>>

----------------------------------------------------------------------------
(* Bounds *)

MaxChunks == 2
MaxAttempts == 2
MaxItems == 2

----------------------------------------------------------------------------
(* Option and sequence helpers *)

None == <<>>
Some(x) == <<x>>
IsSome(o) == o # <<>>
Unwrap(o) == o[1]
UnwrapOr(o, d) == IF o = <<>> THEN d ELSE o[1]

Last(s) == s[Len(s)]

----------------------------------------------------------------------------
(* The vendor's wire data (serde structs of sse/gemini.rs and               *)
(* endpoint/gemini.rs) and the inputs the model draws from                  *)

GeminiPart(text, function_call) == [text |-> text, function_call |-> function_call]
GeminiContent(parts) == [parts |-> parts]
GeminiCandidate(content, finish_reason) ==
    [content |-> content, finish_reason |-> finish_reason]
GeminiResponse(candidates, usage_metadata) ==
    [candidates |-> candidates, usage_metadata |-> usage_metadata]
GeminiUsageMetadata(p, c, t) ==
    [prompt_token_count |-> p, candidates_token_count |-> c, total_token_count |-> t]

\* function calls: with structured args and a thought signature, and bare
CallWeather == [name |-> "get_weather", args |-> Some("city_london"),
                thought_signature |-> Some("sig")]
CallBare == [name |-> "list_files", args |-> None, thought_signature |-> None]

Ta == GeminiPart(Some("a"), None)
Tb == GeminiPart(Some("b"), None)
Tempty == GeminiPart(Some(""), None)
Fw == GeminiPart(None, Some(CallWeather))
Fb == GeminiPart(None, Some(CallBare))
TaFw == GeminiPart(Some("a"), Some(CallWeather))

FinishReasons == {None, Some("STOP"), Some("MAX_TOKENS"), Some("SAFETY"), Some("RECITATION")}

\* contents combined with every finish reason
MainContents ==
    { None,
      Some(GeminiContent(Some(<<Ta>>))),
      Some(GeminiContent(Some(<<Tb>>))),
      Some(GeminiContent(Some(<<Fw>>))),
      Some(GeminiContent(Some(<<Ta, Fw, Tb>>))) }

\* contents that exercise one parsing case each
EdgeContents ==
    { Some(GeminiContent(None)),
      Some(GeminiContent(Some(<<>>))),
      Some(GeminiContent(Some(<<Tempty>>))),
      Some(GeminiContent(Some(<<Fb>>))),
      Some(GeminiContent(Some(<<TaFw>>))),
      Some(GeminiContent(Some(<<Ta, Tb>>))) }

Candidates ==
    { GeminiCandidate(c, r) : c \in MainContents, r \in FinishReasons }
    \cup { GeminiCandidate(c, None) : c \in EdgeContents }

FirstOfTwo ==
    { GeminiCandidate(Some(GeminiContent(Some(<<Ta>>))), r) :
        r \in {None, Some("STOP"), Some("MAX_TOKENS"), Some("RECITATION")} }
    \cup { GeminiCandidate(None, Some("SAFETY")) }

SecondOfTwo ==
    { GeminiCandidate(Some(GeminiContent(Some(<<Tb>>))), None),
      GeminiCandidate(Some(GeminiContent(Some(<<Fw>>))), Some("STOP")),
      GeminiCandidate(None, Some("STOP")) }

Usage1 == GeminiUsageMetadata(Some(10), Some(5), Some(15))
Usage2 == GeminiUsageMetadata(None, Some(7), None)

\* function calls in two candidates, two of them without args
CallsAcrossCandidates ==
    GeminiResponse(Some(<<GeminiCandidate(Some(GeminiContent(Some(<<Fw, Fb>>))), None),
                          GeminiCandidate(Some(GeminiContent(Some(<<Fb>>))), Some("STOP"))>>),
                   None)

\* the JSON values a vendor answer can carry
Responses ==
    { GeminiResponse(Some(<<c>>), None) : c \in Candidates }
    \cup { CallsAcrossCandidates }
    \cup { GeminiResponse(Some(<<c1, c2>>), None) : c1 \in FirstOfTwo, c2 \in SecondOfTwo }
    \cup { GeminiResponse(None, None), GeminiResponse(Some(<<>>), None),
           GeminiResponse(None, Some(Usage1)), GeminiResponse(None, Some(Usage2)),
           GeminiResponse(Some(<<GeminiCandidate(Some(GeminiContent(Some(<<Tb>>))),
                                                 Some("STOP"))>>), Some(Usage1)),
           GeminiResponse(Some(<<GeminiCandidate(None, Some("STOP"))>>), Some(Usage2)) }

\* text of an SSE event or of a response body: blank, not JSON of the
\* expected shape, or the JSON text of a response
Blank == [kind |-> "blank"]
Garbage == [kind |-> "garbage"]
Json(v) == [kind |-> "json", value |-> v]
Payloads == {Blank, Garbage} \cup { Json(r) : r \in Responses }

\* the polls that are no SSE event: end of the source stream, a transport
\* error, the idle timeout
EndOfStream == [kind |-> "end"]
TransportFailed == [kind |-> "error"]
TimedOut == [kind |-> "timeout"]

\* serde_json::to_string of the args value
to_string(a) == IF a = "city_london" THEN "{\"city\":\"London\"}" ELSE "{}"

----------------------------------------------------------------------------
(* The normalized model: response items, events, errors                    *)

OutputText(text) == [type |-> "OutputText", text |-> text]
Message(content) == [type |-> "Message", role |-> "assistant", content |-> content]
call_id(n) == <<"gemini_call_", n>>

OutputItemAdded(item) == [tag |-> "OutputItemAdded", item |-> item]
OutputTextDelta(text) == [tag |-> "OutputTextDelta", text |-> text]
OutputItemDone(item) == [tag |-> "OutputItemDone", item |-> item]
Completed(token_usage) ==
    [tag |-> "Completed", response_id |-> "", token_usage |-> token_usage]
Err(e) == [tag |-> "Err", error |-> e]

ContextWindowExceeded == <<"ContextWindowExceeded">>
StreamError(msg) == <<"Stream", msg>>
SafetyMessage == "Response blocked by safety filters"
IdleMessage == "idle timeout waiting for SSE"
NetworkMessage == "network error"

TokenUsage(u) ==
    [input_tokens |-> UnwrapOr(u.prompt_token_count, 0),
     output_tokens |-> UnwrapOr(u.candidates_token_count, 0),
     cached_input_tokens |-> 0,
     reasoning_output_tokens |-> 0,
     total_tokens |-> UnwrapOr(u.total_token_count, 0)]

\* Option::map(|u| TokenUsage {..})
MapTokenUsage(o) == IF o = None THEN None ELSE Some(TokenUsage(Unwrap(o)))

----------------------------------------------------------------------------
(* sse/gemini.rs: the streaming parser.  The locals of process_gemini_sse  *)
(* travel through one loop iteration as the record st; st.out collects the *)
(* items the iteration sends on tx_event, st.returned is set by a return.  *)

Send(st, item) == [st EXCEPT !.out = Append(@, item)]

\* if let Some(assistant) = assistant_item.take() { send(OutputItemDone(assistant)) }
FlushAssistant(st) ==
    IF IsSome(st.assistant_item)
    THEN [Send(st, OutputItemDone(Unwrap(st.assistant_item)))
            EXCEPT !.assistant_item = None]
    ELSE st

\* append_assistant_text announcing the message only after its first delta
append_assistant_text_late_added(st, text) ==
    LET item == IF st.assistant_item = None THEN Message(<<>>)
                ELSE Unwrap(st.assistant_item)
        delta == Send(st, OutputTextDelta(text))
        opened == IF st.assistant_item = None
                  THEN Send(delta, OutputItemAdded(Message(<<>>)))
                  ELSE delta
    IN  [opened EXCEPT !.assistant_item =
                           Some([item EXCEPT !.content = Append(@, OutputText(text))])]

\* append_assistant_text overwriting the content instead of pushing to it
append_assistant_text_overwrite(st, text) ==
    LET opened ==
            IF st.assistant_item = None
            THEN [Send(st, OutputItemAdded(Message(<<>>)))
                    EXCEPT !.assistant_item = Some(Message(<<>>))]
            ELSE st
        item == Unwrap(opened.assistant_item)
    IN  [Send(opened, OutputTextDelta(text))
           EXCEPT !.assistant_item =
                      Some([item EXCEPT !.content = <<OutputText(text)>>])]

append_assistant_text(st, text) ==
    LET opened ==
            IF st.assistant_item = None
            THEN [Send(st, OutputItemAdded(Message(<<>>)))
                    EXCEPT !.assistant_item = Some(Message(<<>>))]
            ELSE st
        item == Unwrap(opened.assistant_item)
    IN  [Send(opened, OutputTextDelta(text))
           EXCEPT !.assistant_item =
                      Some([item EXCEPT !.content = Append(@, OutputText(text))])]

\* arguments of a function call: args serialized, "{}" when absent
Arguments(func_call) ==
    IF IsSome(func_call.args) THEN to_string(Unwrap(func_call.args)) ELSE "{}"

SseFunctionCallItem(func_call, n) ==
    [type |-> "FunctionCall", name |-> func_call.name,
     arguments |-> Arguments(func_call), call_id |-> call_id(n),
     thought_signature |-> func_call.thought_signature]

\* HandleFunctionCall leaving the pending message open
HandleFunctionCall_no_flush(st, func_call) ==
    LET n == st.function_call_counter + 1
    IN  [Send(st, OutputItemDone(SseFunctionCallItem(func_call, n)))
           EXCEPT !.function_call_counter = n]

\* HandleFunctionCall numbering the call without keeping the new count
HandleFunctionCall_counter_not_kept(st, func_call) ==
    LET flushed == FlushAssistant(st)
        n == flushed.function_call_counter + 1
    IN  Send(flushed, OutputItemDone(SseFunctionCallItem(func_call, n)))

HandleFunctionCall(st, func_call) ==
    LET flushed == FlushAssistant(st)
        n == flushed.function_call_counter + 1
    IN  [Send(flushed, OutputItemDone(SseFunctionCallItem(func_call, n)))
           EXCEPT !.function_call_counter = n]

HandlePart(st, part) ==
    LET afterText ==
            IF IsSome(part.text) /\ Unwrap(part.text) # ""
            THEN append_assistant_text(st, Unwrap(part.text))
            ELSE st
    IN  IF IsSome(part.function_call)
        THEN HandleFunctionCall(afterText, Unwrap(part.function_call))
        ELSE afterText

RECURSIVE HandleParts(_, _)
HandleParts(st, parts) ==
    IF parts = <<>> THEN st
    ELSE HandleParts(HandlePart(st, Head(parts)), Tail(parts))

\* if let Some(content) = &candidate.content && let Some(parts) = &content.parts
HandleContent(st, candidate) ==
    IF IsSome(candidate.content) /\ IsSome(Unwrap(candidate.content).parts)
    THEN HandleParts(st, Unwrap(Unwrap(candidate.content).parts))
    ELSE st

\* FinishStop that forgets to set completed_sent
FinishStop_flag_not_set(st) ==
    LET flushed == FlushAssistant(st)
    IN  IF ~flushed.completed_sent
        THEN [Send(flushed, Completed(MapTokenUsage(flushed.last_usage)))
                EXCEPT !.last_usage = None]
        ELSE flushed

FinishStop(st) ==
    LET flushed == FlushAssistant(st)
    IN  IF ~flushed.completed_sent
        THEN [Send(flushed, Completed(MapTokenUsage(flushed.last_usage)))
                EXCEPT !.last_usage = None, !.completed_sent = TRUE]
        ELSE flushed

\* FinishMaxTokens closing the pending message first, as STOP does
FinishMaxTokens_flushes(st) ==
    [Send(FlushAssistant(st), Err(ContextWindowExceeded)) EXCEPT !.returned = TRUE]

FinishMaxTokens(st) ==
    [Send(st, Err(ContextWindowExceeded)) EXCEPT !.returned = TRUE]

\* FinishSafety without the return: the loop goes on after the error
FinishSafety_no_return(st) ==
    Send(st, Err(StreamError(SafetyMessage)))

FinishSafety(st) ==
    [Send(st, Err(StreamError(SafetyMessage))) EXCEPT !.returned = TRUE]

\* HandleFinishReason ending the turn on every reason it does not know
HandleFinishReason_other_is_stop(st, finish_reason) ==
    IF finish_reason = None THEN st
    ELSE CASE Unwrap(finish_reason) = "MAX_TOKENS" -> FinishMaxTokens(st)
           [] Unwrap(finish_reason) = "SAFETY" -> FinishSafety(st)
           [] OTHER -> FinishStop(st)

HandleFinishReason(st, finish_reason) ==
    IF finish_reason = None THEN st
    ELSE CASE Unwrap(finish_reason) = "STOP" -> FinishStop(st)
           [] Unwrap(finish_reason) = "MAX_TOKENS" -> FinishMaxTokens(st)
           [] Unwrap(finish_reason) = "SAFETY" -> FinishSafety(st)
           [] OTHER -> st

HandleCandidate(st, candidate) ==
    HandleFinishReason(HandleContent(st, candidate), candidate.finish_reason)

\* for candidate in candidates { .. }, left by a return
RECURSIVE HandleCandidates(_, _)
HandleCandidates(st, candidates) ==
    IF candidates = <<>> \/ st.returned THEN st
    ELSE HandleCandidates(HandleCandidate(st, Head(candidates)), Tail(candidates))

\* serde_json::from_str::<GeminiResponse>(&sse.data)
ParseSse(data) == IF data.kind = "json" THEN Some(data.value) ELSE None

\* HandleSseEvent ending the stream with an error on an unparsable event
HandleSseEvent_abort_on_garbage(st, data) ==
    IF data.kind = "blank" THEN st
    ELSE IF ParseSse(data) = None
    THEN [Send(st, Err(StreamError("unparsable event"))) EXCEPT !.returned = TRUE]
    ELSE LET gemini_response == Unwrap(ParseSse(data))
             stored == IF IsSome(gemini_response.usage_metadata)
                       THEN [st EXCEPT !.last_usage = gemini_response.usage_metadata]
                       ELSE st
         IN  IF gemini_response.candidates = None THEN stored
             ELSE HandleCandidates(stored, Unwrap(gemini_response.candidates))

\* HandleSseEvent keeping the first usage metadata it saw, not the latest
HandleSseEvent_keeps_first_usage(st, data) ==
    IF data.kind = "blank" THEN st
    ELSE IF ParseSse(data) = None THEN st
    ELSE LET gemini_response == Unwrap(ParseSse(data))
             stored == IF IsSome(gemini_response.usage_metadata) /\ st.last_usage = None
                       THEN [st EXCEPT !.last_usage = gemini_response.usage_metadata]
                       ELSE st
         IN  IF gemini_response.candidates = None THEN stored
             ELSE HandleCandidates(stored, Unwrap(gemini_response.candidates))

\* the body of the loop for one polled event
HandleSseEvent(st, data) ==
    IF data.kind = "blank" THEN st
    ELSE IF ParseSse(data) = None THEN st
    ELSE LET gemini_response == Unwrap(ParseSse(data))
             stored == IF IsSome(gemini_response.usage_metadata)
                       THEN [st EXCEPT !.last_usage = gemini_response.usage_metadata]
                       ELSE st
         IN  IF gemini_response.candidates = None THEN stored
             ELSE HandleCandidates(stored, Unwrap(gemini_response.candidates))

\* HandleEnd building the Completed event without the retained usage
HandleEnd_usage_dropped(st) ==
    LET flushed == FlushAssistant(st)
        completed == IF ~flushed.completed_sent
                     THEN Send(flushed, Completed(None))
                     ELSE flushed
    IN  [completed EXCEPT !.returned = TRUE]

\* Ok(None): the source stream ended
HandleEnd(st) ==
    LET flushed == FlushAssistant(st)
        completed == IF ~flushed.completed_sent
                     THEN Send(flushed, Completed(MapTokenUsage(flushed.last_usage)))
                     ELSE flushed
    IN  [completed EXCEPT !.returned = TRUE]

\* Ok(Some(Err(e)))
HandleTransportError(st, e) ==
    [Send(st, Err(StreamError(e))) EXCEPT !.returned = TRUE]

\* HandleIdleTimeout closing the pending message before the error
HandleIdleTimeout_flushes(st) ==
    [Send(FlushAssistant(st), Err(StreamError(IdleMessage))) EXCEPT !.returned = TRUE]

\* Err(_): the idle timeout fired first
HandleIdleTimeout(st) ==
    [Send(st, Err(StreamError(IdleMessage))) EXCEPT !.returned = TRUE]

Locals ==
    [assistant_item |-> assistant_item, completed_sent |-> completed_sent,
     last_usage |-> last_usage, function_call_counter |-> function_call_counter,
     out |-> <<>>, returned |-> FALSE]

\* one iteration of the loop of process_gemini_sse, ending in st
Iterate(st) ==
    /\ assistant_item' = st.assistant_item
    /\ completed_sent' = st.completed_sent
    /\ last_usage' = st.last_usage
    /\ function_call_counter' = st.function_call_counter
    /\ sent' = sent \o st.out
    /\ pc' = IF st.returned THEN "done" ELSE "sse"

----------------------------------------------------------------------------
(* endpoint/gemini.rs: batch replay.  The locals of emit_gemini_events     *)
(* travel as the record bt.                                                *)

RECURSIVE join(_)
join(text_parts) ==
    IF text_parts = <<>> THEN ""
    ELSE Head(text_parts) \o join(Tail(text_parts))

BatchFunctionCallItem(func_call, n) ==
    [type |-> "FunctionCall", name |-> func_call.name,
     arguments |-> Arguments(func_call), call_id |-> call_id(n)]

EmitPart(bt, part) ==
    LET afterText ==
            IF IsSome(part.text) /\ Unwrap(part.text) # ""
            THEN [Send(bt, OutputTextDelta(Unwrap(part.text)))
                    EXCEPT !.text_parts = Append(@, Unwrap(part.text))]
            ELSE bt
        n == afterText.function_call_counter + 1
    IN  IF IsSome(part.function_call)
        THEN [Send(afterText,
                   OutputItemDone(BatchFunctionCallItem(Unwrap(part.function_call), n)))
                EXCEPT !.function_call_counter = n]
        ELSE afterText

RECURSIVE EmitParts(_, _)
EmitParts(bt, parts) ==
    IF parts = <<>> THEN bt
    ELSE EmitParts(EmitPart(bt, Head(parts)), Tail(parts))

\* EmitMessage without the is_empty test: a message for every content
EmitMessage_unconditional(bt) ==
    Send(bt, OutputItemDone(Message(<<OutputText(join(bt.text_parts))>>)))

\* if !text_parts.is_empty() { send(OutputItemDone(message of the joined text)) }
EmitMessage(bt) ==
    IF bt.text_parts # <<>>
    THEN Send(bt, OutputItemDone(Message(<<OutputText(join(bt.text_parts))>>)))
    ELSE bt

EmitContent(bt, candidate) ==
    IF IsSome(candidate.content) /\ IsSome(Unwrap(candidate.content).parts)
    THEN EmitMessage(EmitParts([bt EXCEPT !.text_parts = <<>>],
                               Unwrap(Unwrap(candidate.content).parts)))
    ELSE bt

\* the finish reason check sending the error and going on with the replay
EmitFinishReason_no_return(bt, finish_reason) ==
    IF finish_reason = Some("MAX_TOKENS")
    THEN Send(bt, Err(ContextWindowExceeded))
    ELSE IF finish_reason = Some("SAFETY")
    THEN Send(bt, Err(StreamError(SafetyMessage)))
    ELSE bt

EmitFinishReason(bt, finish_reason) ==
    IF finish_reason = Some("MAX_TOKENS")
    THEN [Send(bt, Err(ContextWindowExceeded)) EXCEPT !.returned = TRUE]
    ELSE IF finish_reason = Some("SAFETY")
    THEN [Send(bt, Err(StreamError(SafetyMessage))) EXCEPT !.returned = TRUE]
    ELSE bt

EmitCandidate(bt, candidate) ==
    EmitFinishReason(EmitContent(bt, candidate), candidate.finish_reason)

RECURSIVE EmitCandidates(_, _)
EmitCandidates(bt, candidates) ==
    IF candidates = <<>> \/ bt.returned THEN bt
    ELSE EmitCandidates(EmitCandidate(bt, Head(candidates)), Tail(candidates))

EmitCompleted(bt, usage_metadata) ==
    IF bt.returned THEN bt
    ELSE Send(bt, Completed(MapTokenUsage(usage_metadata)))

emit_gemini_events(resp) ==
    LET bt0 == [function_call_counter |-> 0, text_parts |-> <<>>,
                out |-> <<>>, returned |-> FALSE]
        looped == IF IsSome(resp.candidates)
                  THEN EmitCandidates(bt0, Unwrap(resp.candidates))
                  ELSE bt0
    IN  EmitCompleted(looped, resp.usage_metadata)

----------------------------------------------------------------------------
(* endpoint/gemini.rs: GeminiClient::stream, driven by the retry executor  *)

BatchChannelCapacity == 32
SseChannelCapacity == 1600

\* provider.base_url: the vendor's, a gateway's with more path segments, and
\* one ending in a slash
BaseUrls ==
    {"https://generativelanguage.googleapis.com/v1beta",
     "https://ai-gateway.example.com/google/v1beta1/publishers/google",
     "http://localhost:8080/"}

\* the model names stream() is called with
Models == {"gemini-pro", "gemini-3-pro-preview"}

\* Provider::gemini_url_for_model with the base URL ending in a version
\* segment of its own
gemini_url_for_model_versioned(base, m) ==
    base \o "/v1beta/models/" \o m \o ":generateContent"

\* Provider::gemini_url_for_model
gemini_url_for_model(base, m) ==
    base \o "/models/" \o m \o ":generateContent"

\* http::HeaderMap, one value per name: a function from the names it holds
\* to their values.  extend replaces the value of a name the map holds
extend(map, other) ==
    [name \in DOMAIN map \cup DOMAIN other |->
        IF name \in DOMAIN other THEN other[name] ELSE map[name]]

insert(map, key, value) ==
    [name \in DOMAIN map \cup {key} |-> IF name = key THEN value ELSE map[name]]

Request(method, to, header_map, content, timeout) ==
    [method |-> method, url |-> to, headers |-> header_map, body |-> content,
     timeout |-> timeout]

\* auth::add_auth_headers: the bearer token of the auth provider, if it has
\* one, as the authorization header
add_auth_headers(token, req) ==
    IF IsSome(token)
    THEN [req EXCEPT !.headers = insert(@, "authorization", "Bearer " \o Unwrap(token))]
    ELSE req

\* the request factory letting the caller's content-type stand
builder_keeps_content_type(to, provider_headers, content, extra, token) ==
    LET req == Request("POST", to, provider_headers, Some(content), None)
        extended == [req EXCEPT !.headers = extend(@, extra)]
        typed == IF "content-type" \in DOMAIN extended.headers THEN extended
                 ELSE [extended EXCEPT
                          !.headers = insert(@, "content-type", "application/json")]
    IN  add_auth_headers(token, typed)

\* the request factory of stream(): the closure `builder`
builder(to, provider_headers, content, extra, token) ==
    LET req == Request("POST", to, provider_headers, Some(content), None)
        extended == [req EXCEPT !.headers = extend(@, extra)]
        typed == [extended EXCEPT
                     !.headers = insert(@, "content-type", "application/json")]
    IN  add_auth_headers(token, typed)

\* provider.headers and the auth provider a client is made with
ClientConfigs ==
    { [headers |-> [name \in {"x-source", "x-version"} |->
                       IF name = "x-source" THEN "provider" ELSE "1"],
       auth |-> Some("token")],
      [headers |-> <<>>, auth |-> None] }

\* the model, the body and the extra_headers stream() is called with
StreamCalls ==
    { [model |-> "gemini-pro",
       body |-> [contents |-> <<>>],
       extra_headers |-> [name \in {"x-source", "content-type", "conversation_id"} |->
                             CASE name = "x-source" -> "call"
                               [] name = "content-type" -> "text/plain"
                               [] OTHER -> "c1"]],
      [model |-> "gemini-3-pro-preview",
       body |-> [contents |-> <<[role |-> "user", parts |-> <<[text |-> "Hello"]>>]>>],
       extra_headers |-> <<>>] }

Policies ==
    [max_attempts : 1..MaxAttempts, retry_429 : BOOLEAN,
     retry_5xx : BOOLEAN, retry_transport : BOOLEAN]

\* what the transport answers to one attempt
Failures == {"transport", "http_429", "http_5xx", "http_4xx"}
Attempts ==
    { [outcome |-> "ok", body |-> b] : b \in Payloads }
    \cup { [outcome |-> f, body |-> Blank] : f \in Failures }

\* ShouldRetry retrying every failure, whatever the policy's flags
ShouldRetry_ignores_flags(p, outcome) ==
    outcome # "ok"

\* classification of a failed attempt against the policy's flags
ShouldRetry(p, outcome) ==
    \/ outcome = "transport" /\ p.retry_transport
    \/ outcome = "http_429" /\ p.retry_429
    \/ outcome = "http_5xx" /\ p.retry_5xx

\* the executor after the made-th attempt ended as att: the response, a
\* retry, or the final error
run_with_request_telemetry(p, made, att) ==
    IF att.outcome = "ok" THEN [kind |-> "Ok", body |-> att.body]
    ELSE IF ShouldRetry(p, att.outcome) /\ made < p.max_attempts
    THEN [kind |-> "Retry"]
    ELSE [kind |-> "Err", error |-> <<"Transport", att.outcome>>]

\* serde_json::from_slice::<GeminiResponse>(&response.body)
ParseBody(body) == IF body.kind = "json" THEN Some(body.value) ELSE None

ParseFailure == StreamError("Failed to parse Gemini response")

\* a task spawned with tokio::spawn and the channel whose Sender was moved
\* into it
ProducerTask(run, channel) == [run |-> run, channel |-> channel]

\* stream() creating the channel before it looks at the executor's result
StreamAfterExecute_channel_first(result) ==
    IF result.kind = "Err"
    THEN [pc |-> "failed", stream_result |-> Some(<<"Err", result.error>>),
          chan |-> Some(BatchChannelCapacity), response |-> None, tasks |-> <<>>]
    ELSE IF ParseBody(result.body) = None
    THEN [pc |-> "failed", stream_result |-> Some(<<"Err", ParseFailure>>),
          chan |-> Some(BatchChannelCapacity), response |-> None, tasks |-> <<>>]
    ELSE [pc |-> "batch", stream_result |-> Some(<<"Ok">>),
          chan |-> Some(BatchChannelCapacity), response |-> ParseBody(result.body),
          tasks |-> <<ProducerTask("emit_gemini_events", BatchChannelCapacity)>>]

\* stream() returning a ResponseStream for an unparsable body and leaving
\* the failure to the producer
StreamAfterExecute_parse_in_task(result) ==
    IF result.kind = "Err"
    THEN [pc |-> "failed", stream_result |-> Some(<<"Err", result.error>>),
          chan |-> None, response |-> None, tasks |-> <<>>]
    ELSE IF ParseBody(result.body) = None
    THEN [pc |-> "failed", stream_result |-> Some(<<"Ok">>),
          chan |-> Some(BatchChannelCapacity), response |-> None, tasks |-> <<>>]
    ELSE [pc |-> "batch", stream_result |-> Some(<<"Ok">>),
          chan |-> Some(BatchChannelCapacity), response |-> ParseBody(result.body),
          tasks |-> <<ProducerTask("emit_gemini_events", BatchChannelCapacity)>>]

\* stream() spawning one task for each candidate of the response
StreamAfterExecute_task_per_candidate(result) ==
    IF result.kind = "Err"
    THEN [pc |-> "failed", stream_result |-> Some(<<"Err", result.error>>),
          chan |-> None, response |-> None, tasks |-> <<>>]
    ELSE IF ParseBody(result.body) = None
    THEN [pc |-> "failed", stream_result |-> Some(<<"Err", ParseFailure>>),
          chan |-> None, response |-> None, tasks |-> <<>>]
    ELSE [pc |-> "batch", stream_result |-> Some(<<"Ok">>),
          chan |-> Some(BatchChannelCapacity), response |-> ParseBody(result.body),
          tasks |-> LET candidates == Unwrap(ParseBody(result.body)).candidates
                    IN  IF candidates = None THEN <<>>
                        ELSE [c \in 1..Len(Unwrap(candidates)) |->
                                 ProducerTask("emit_gemini_events", BatchChannelCapacity)]]

\* stream() from the executor's result on: `?`, parse, `?`, channel, spawn
StreamAfterExecute(result) ==
    IF result.kind = "Err"
    THEN [pc |-> "failed", stream_result |-> Some(<<"Err", result.error>>),
          chan |-> None, response |-> None, tasks |-> <<>>]
    ELSE IF ParseBody(result.body) = None
    THEN [pc |-> "failed", stream_result |-> Some(<<"Err", ParseFailure>>),
          chan |-> None, response |-> None, tasks |-> <<>>]
    ELSE [pc |-> "batch", stream_result |-> Some(<<"Ok">>),
          chan |-> Some(BatchChannelCapacity), response |-> ParseBody(result.body),
          tasks |-> <<ProducerTask("emit_gemini_events", BatchChannelCapacity)>>]

----------------------------------------------------------------------------
(* The state machine *)

----------------------------------------------------------------------------
(* The request builder (requests/gemini.rs)                                *)
(*                                                                         *)
(* A JSON object is a record, a JSON array a sequence; a field an object   *)
(* lacks is a field the record lacks.  A parsed JSON value carries its     *)
(* kind.  A URL is the sequence of its pieces, the separators "data:",     *)
(* ";" and "," being pieces of their own.  The headers of the request come *)
(* from build_conversation_headers, which is outside this model.           *)

InputText(text) == [type |-> "InputText", text |-> text]
InputImage(image_url) == [type |-> "InputImage", image_url |-> image_url]
InputMessage(role, content) == [type |-> "Message", role |-> role, content |-> content]
FunctionCall(name, arguments, id) ==
    [type |-> "FunctionCall", name |-> name, arguments |-> arguments, call_id |-> id]
FunctionCallOutputPayload(content, content_items) ==
    [content |-> content, content_items |-> content_items]
FunctionCallOutput(id, output) ==
    [type |-> "FunctionCallOutput", call_id |-> id, output |-> output]

UnsupportedTypes == {"LocalShellCall", "CustomToolCall", "CustomToolCallOutput",
                     "Reasoning", "WebSearchCall", "GhostSnapshot",
                     "CompactionSummary", "Other"}

JsonObject(fields) == [json |-> "object", fields |-> fields]
JsonNumber(n) == [json |-> "number", n |-> n]
JsonNull == [json |-> "null"]
EmptyObject == JsonObject(<<>>)

\* serde_json::from_str::<Value> on the argument texts the model draws from
from_str(text) ==
    CASE text = "{\"city\": \"London\"}" -> Some(JsonObject([city |-> "London"]))
      [] text = "{}" -> Some(EmptyObject)
      [] text = "42" -> Some(JsonNumber(42))
      [] text = "null" -> Some(JsonNull)
      [] OTHER -> None

ArgumentTexts == {"{\"city\": \"London\"}", "{}", "42", "null", "", "{\"city\": ",
                  "{} trailing"}

\* the pieces of a string joined
RECURSIVE Concat(_)
Concat(pieces) ==
    IF pieces = <<>> THEN "" ELSE Head(pieces) \o Concat(Tail(pieces))

\* str::find of a separator: Option of the index of its first occurrence
RECURSIVE find(_, _)
find(pieces, sep) ==
    IF pieces = <<>> THEN None
    ELSE IF Head(pieces) = sep THEN Some(1)
    ELSE LET rest == find(Tail(pieces), sep)
         IN  IF IsSome(rest) THEN Some(Unwrap(rest) + 1) ELSE None

DataUrlPng == <<"data:", "image/png", ";", "base64", ",", "iVBORw0KGgo=">>
DataUrlPlain == <<"data:", "text/plain", ",", "a", ",", "b">>
DataUrlNoMime == <<"data:", ",", "AAAA">>
DataUrlNoComma == <<"data:", "image/png", ";", "base64">>
RemoteUrl == <<"https://example.com/cat.png">>
ImageUrls == {DataUrlPng, DataUrlPlain, DataUrlNoMime, DataUrlNoComma, RemoteUrl}

\* map_role_to_gemini with "model" as the default of unrecognised roles
map_role_to_gemini_default_model(role) ==
    CASE role = "user" -> "user"
      [] role = "assistant" -> "model"
      [] role = "system" -> "user"
      [] role = "tool" -> "user"
      [] OTHER -> "model"

\* map_role_to_gemini
map_role_to_gemini(role) ==
    CASE role = "user" -> "user"
      [] role = "assistant" -> "model"
      [] role = "system" -> "user"
      [] role = "tool" -> "user"
      [] OTHER -> "user"

\* the pieces before the first separator: split(sep).next()
split_next(pieces, sep) ==
    LET at == find(pieces, sep)
    IN  IF IsSome(at) THEN SubSeq(pieces, 1, Unwrap(at) - 1) ELSE pieces

starts_with(pieces, prefix) == pieces # <<>> /\ Head(pieces) = prefix

\* the closure of content_items_to_parts: Option of the part of one item
ContentItemToPart(item) ==
    IF item.type \in {"InputText", "OutputText"}
    THEN IF item.text = "" THEN None ELSE Some([text |-> item.text])
    ELSE IF starts_with(item.image_url, "data:")
         THEN LET comma_idx == find(item.image_url, ",")
              IN  IF IsSome(comma_idx)
                  THEN LET metadata == SubSeq(item.image_url, 2, Unwrap(comma_idx) - 1)
                           data == SubSeq(item.image_url, Unwrap(comma_idx) + 1,
                                          Len(item.image_url))
                           mime_type == split_next(metadata, ";")
                       IN  Some([inlineData |-> [mimeType |-> Concat(mime_type),
                                                 data |-> Concat(data)]])
                  ELSE None
         ELSE Some([fileData |-> [fileUri |-> Concat(item.image_url),
                                  mimeType |-> "image/jpeg"]])

\* content_items_to_parts: the parts of the items that have one, collected
RECURSIVE content_items_to_parts(_)
content_items_to_parts(content) ==
    IF content = <<>> THEN <<>>
    ELSE ContentItemToPart(Head(content)) \o content_items_to_parts(Tail(content))

\* the first pass inserting name -> call_id
RECURSIVE function_call_names_swapped(_)
function_call_names_swapped(input) ==
    IF input = <<>> THEN <<>>
    ELSE LET item == Last(input)
             before == function_call_names_swapped(SubSeq(input, 1, Len(input) - 1))
         IN  IF item.type = "FunctionCall"
             THEN (item.name :> item.call_id) @@ before
             ELSE before

\* the first pass of build: call_id -> name, a later insert replacing an
\* earlier one
RECURSIVE function_call_names(_)
function_call_names(input) ==
    IF input = <<>> THEN <<>>
    ELSE LET item == Last(input)
             before == function_call_names(SubSeq(input, 1, Len(input) - 1))
         IN  IF item.type = "FunctionCall"
             THEN (item.call_id :> item.name) @@ before
             ELSE before

\* arguments parsed with unwrap_or_default: null when the text is not JSON
ParseArguments_null_on_error(arguments) == UnwrapOr(from_str(arguments), JsonNull)

\* serde_json::from_str(arguments).unwrap_or(json!({}))
ParseArguments(arguments) == UnwrapOr(from_str(arguments), EmptyObject)

\* the lookup with the empty name for a call_id no function call has
FunctionName_empty_when_unmatched(names, id) ==
    IF id \in DOMAIN names THEN names[id] ELSE ""

\* function_call_names.get(call_id).cloned().unwrap_or_else(|| "unknown")
FunctionName(names, id) ==
    IF id \in DOMAIN names THEN names[id] ELSE "unknown"

\* the closure over the content items of a function call output
OutputItemToPart(it) ==
    IF it.type = "InputText" THEN Some([text |-> it.text]) ELSE None

\* the parts of the content items of a function call output, collected
RECURSIVE OutputItemsToParts(_)
OutputItemsToParts(items) ==
    IF items = <<>> THEN <<>>
    ELSE OutputItemToPart(Head(items)) \o OutputItemsToParts(Tail(items))

ResponseValue(output) ==
    IF IsSome(output.content_items)
    THEN [parts |-> OutputItemsToParts(Unwrap(output.content_items))]
    ELSE [output |-> output.content]

\* the second pass pushing the entry of a message whatever its parts
ConvertItem_keeps_empty_message(item, names) ==
    CASE item.type = "Message" ->
            <<[role |-> map_role_to_gemini(item.role),
               parts |-> content_items_to_parts(item.content)]>>
      [] item.type = "FunctionCall" ->
            <<[role |-> "model",
               parts |-> <<[functionCall |->
                              [name |-> item.name,
                               args |-> ParseArguments(item.arguments)]]>>]>>
      [] item.type = "FunctionCallOutput" ->
            <<[role |-> "user",
               parts |-> <<[functionResponse |->
                              [name |-> FunctionName(names, item.call_id),
                               response |-> ResponseValue(item.output)]]>>]>>
      [] OTHER -> <<>>

\* one iteration of the second pass of build: the entries pushed to contents
ConvertItem(item, names) ==
    CASE item.type = "Message" ->
            LET gemini_role == map_role_to_gemini(item.role)
                parts == content_items_to_parts(item.content)
            IN  IF parts # <<>>
                THEN <<[role |-> gemini_role, parts |-> parts]>>
                ELSE <<>>
      [] item.type = "FunctionCall" ->
            <<[role |-> "model",
               parts |-> <<[functionCall |->
                              [name |-> item.name,
                               args |-> ParseArguments(item.arguments)]]>>]>>
      [] item.type = "FunctionCallOutput" ->
            <<[role |-> "user",
               parts |-> <<[functionResponse |->
                              [name |-> FunctionName(names, item.call_id),
                               response |-> ResponseValue(item.output)]]>>]>>
      [] OTHER -> <<>>

RECURSIVE ConvertItems(_, _)
ConvertItems(input, names) ==
    IF input = <<>> THEN <<>>
    ELSE ConvertItem(Head(input), names) \o ConvertItems(Tail(input), names)

\* Value::get on an object
Get(value, key) == IF key \in DOMAIN value THEN Some(value[key]) ELSE None

\* the systemInstruction field left out for blank instructions too
SystemInstruction_blank_is_empty(instructions) ==
    IF instructions # "" /\ instructions # " "
    THEN [systemInstruction |-> [parts |-> <<[text |-> instructions]>>]]
    ELSE <<>>

\* the systemInstruction field of the body, if any
SystemInstruction(instructions) ==
    IF instructions # ""
    THEN [systemInstruction |-> [parts |-> <<[text |-> instructions]>>]]
    ELSE <<>>

\* a function declaration of a tool in the OpenAI format; a field the
\* function lacks is None, serialized as null
ToolToDeclaration(tool) ==
    LET func == Get(tool, "function")
    IN  IF IsSome(func)
        THEN Some([name |-> Get(Unwrap(func), "name"),
                   description |-> Get(Unwrap(func), "description"),
                   parameters |-> Get(Unwrap(func), "parameters")])
        ELSE None

\* the declarations of the tools that have one, collected
RECURSIVE ToolsToDeclarations(_)
ToolsToDeclarations(tools) ==
    IF tools = <<>> THEN <<>>
    ELSE ToolToDeclaration(Head(tools)) \o ToolsToDeclarations(Tail(tools))

\* the tools field of the body, if any
ToolsField(tools) ==
    IF tools # <<>>
    THEN LET function_declarations == ToolsToDeclarations(tools)
         IN  IF function_declarations # <<>>
             THEN [tools |-> <<[functionDeclarations |-> function_declarations]>>]
             ELSE <<>>
    ELSE <<>>

\* GeminiRequestBuilder::build
build(p) ==
    LET contents == ConvertItems(p.input, function_call_names(p.input))
        body == [contents |-> contents] @@ SystemInstruction(p.instructions)
                    @@ ToolsField(p.tools)
    IN  [tag |-> "Ok", body |-> body, model |-> p.model]

(* The prompts the model draws from *)

Roles == {"user", "assistant", "system", "tool", "developer"}

Hello == <<InputText("Hello")>>

Messages ==
    { InputMessage(role, Hello) : role \in Roles }
    \cup { InputMessage("user", <<InputImage(image_url)>>) : image_url \in ImageUrls }
    \cup { InputMessage("user", <<>>),
           InputMessage("user", <<InputText("")>>),
           InputMessage("assistant",
                        <<OutputText("Hi"), InputImage(DataUrlNoComma),
                          InputText(""), InputText("there")>>) }

FunctionCalls ==
    { FunctionCall("get_weather", "{\"city\": \"London\"}", "call_1"),
      FunctionCall("shell", "{\"city\": ", "call_1"),
      FunctionCall("shell", "{}", "call_2"),
      FunctionCall("get_weather", "42", "call_2"),
      FunctionCall("shell", "", "call_3"),
      FunctionCall("shell", "{} trailing", "call_3"),
      FunctionCall("get_weather", "null", "call_3") }

FunctionCallOutputs ==
    { FunctionCallOutput("call_1", FunctionCallOutputPayload("sunny", None)),
      FunctionCallOutput("call_2",
          FunctionCallOutputPayload("ok",
              Some(<<InputText("a"), InputImage(RemoteUrl), InputText("")>>))),
      FunctionCallOutput("call_9", FunctionCallOutputPayload("lost", None)) }

UnsupportedItems == { [type |-> t] : t \in UnsupportedTypes }

Items == Messages \cup FunctionCalls \cup FunctionCallOutputs \cup UnsupportedItems

Inputs == UNION { [1..n -> Items] : n \in 0..MaxItems }

Instructions == {"", " ", "Be concise."}

ShellTool ==
    [type |-> "function",
     function |-> [name |-> "shell", description |-> "Runs a command",
                   parameters |-> JsonObject([type |-> "object"])]]
PingTool == [type |-> "function", function |-> [name |-> "ping"]]
WebSearchTool == [type |-> "web_search"]
ToolLists == {<<ShellTool>>, <<WebSearchTool>>, <<WebSearchTool, WebSearchTool>>,
              <<ShellTool, WebSearchTool, PingTool>>}

Prompt(m, instructions, input, tools) ==
    [model |-> m, instructions |-> instructions, input |-> input,
     tools |-> tools]

\* every input with every instruction text; the tool lists and the models
\* with one input, the conversions being independent of each other
Prompts ==
    { Prompt("gemini-pro", instructions, input, <<>>) :
          instructions \in Instructions, input \in Inputs }
    \cup { Prompt(m, "Be concise.", <<InputMessage("user", Hello)>>, tools) :
               m \in Models, tools \in ToolLists }

----------------------------------------------------------------------------
(* The security deny list (core/src/security_deny_list.rs)                 *)
(*                                                                         *)
(* A command is the sequence of its arguments.  A compiled pattern is the  *)
(* text it was compiled from, whether it starts with ^, and the atoms that *)
(* follow: a literal text, \s+ or a group of alternative literal texts.    *)

Allowed == [tag |-> "Allowed"]
RequiresApproval(matched) == [tag |-> "RequiresApproval", matched_pattern |-> matched]
Forbidden(matched) == [tag |-> "Forbidden", matched_pattern |-> matched]

Lit(text) == [kind |-> "lit", text |-> text]
Spaces == [kind |-> "spaces"]
Alt(texts) == [kind |-> "alt", texts |-> texts]
Regex(source, anchored, atoms) ==
    [source |-> source, anchored |-> anchored, atoms |-> atoms]

\* text occurs in s at position i
OccursAt(s, text, i) ==
    /\ i + Len(text) - 1 <= Len(s)
    /\ SubSeq(s, i, i + Len(text) - 1) = text

\* the atoms match s from position i on
RECURSIVE MatchFrom(_, _, _)
MatchFrom(atoms, s, i) ==
    IF atoms = <<>> THEN TRUE
    ELSE LET atom == Head(atoms)
         IN  CASE atom.kind = "lit" ->
                    /\ OccursAt(s, atom.text, i)
                    /\ MatchFrom(Tail(atoms), s, i + Len(atom.text))
               [] atom.kind = "spaces" ->
                    \E k \in 1..(Len(s) - i + 1) :
                        /\ \A j \in i..(i + k - 1) : SubSeq(s, j, j) = " "
                        /\ MatchFrom(Tail(atoms), s, i + k)
               [] atom.kind = "alt" ->
                    \E text \in atom.texts :
                        /\ OccursAt(s, text, i)
                        /\ MatchFrom(Tail(atoms), s, i + Len(text))

\* Regex::is_match: a match anywhere in s, at its start if anchored
is_match(pattern, s) ==
    IF pattern.anchored THEN MatchFrom(pattern.atoms, s, 1)
    ELSE \E i \in 1..(Len(s) + 1) : MatchFrom(pattern.atoms, s, i)

\* find_matching_pattern: the text of the first pattern that matches
RECURSIVE find_matching_pattern(_, _)
find_matching_pattern(command_str, patterns) ==
    IF patterns = <<>> THEN None
    ELSE IF is_match(Head(patterns), command_str) THEN Some(Head(patterns).source)
    ELSE find_matching_pattern(command_str, Tail(patterns))

\* cmd.join(" ")
RECURSIVE JoinWithSpace(_)
JoinWithSpace(words) ==
    IF words = <<>> THEN ""
    ELSE IF Len(words) = 1 THEN words[1]
    ELSE words[1] \o " " \o JoinWithSpace(Tail(words))

Contains(s, text) == \E i \in 1..Len(s) : OccursAt(s, text, i)

\* s split at every occurrence of sep
RECURSIVE Split(_, _)
Split(s, sep) ==
    IF Contains(s, sep)
    THEN LET i == CHOOSE k \in 1..Len(s) :
                      /\ OccursAt(s, sep, k)
                      /\ \A j \in 1..(k - 1) : ~OccursAt(s, sep, j)
         IN  <<SubSeq(s, 1, i - 1)>> \o Split(SubSeq(s, i + Len(sep), Len(s)), sep)
    ELSE <<s>>

\* the words of each text of a sequence
RECURSIVE WordsOfEach(_)
WordsOfEach(texts) ==
    IF texts = <<>> THEN <<>>
    ELSE <<Split(Head(texts), " ")>> \o WordsOfEach(Tail(texts))

\* each text of a sequence split at sep, the pieces in order
RECURSIVE SplitEach(_, _)
SplitEach(texts, sep) ==
    IF texts = <<>> THEN <<>>
    ELSE Split(Head(texts), sep) \o SplitEach(Tail(texts), sep)

Shells == {"bash", "zsh", "sh"}
ShellFlags == {"-lc", "-c"}

\* what makes a script more than plain commands: redirection, expansion,
\* substitution
NotPlain == {">", "<", "$", "("}

\* bash::parse_shell_lc_plain_commands: the plain commands of the script of
\* `shell -lc script`, None for any other command and for a script that is
\* more than plain commands joined by && and ;
parse_shell_lc_plain_commands(cmd) ==
    IF /\ Len(cmd) = 3
       /\ cmd[1] \in Shells
       /\ cmd[2] \in ShellFlags
       /\ \A mark \in NotPlain : ~Contains(cmd[3], mark)
    THEN Some(WordsOfEach(SplitEach(Split(cmd[3], " && "), " ; ")))
    ELSE None

\* the loop with the deny patterns checked before the forbidden ones
RECURSIVE CheckCommands_deny_first(_, _)
CheckCommands_deny_first(commands, policy_) ==
    IF commands = <<>> THEN Allowed
    ELSE LET command_str == JoinWithSpace(Head(commands))
             forbidden == find_matching_pattern(command_str, policy_.forbidden_commands)
             deny == find_matching_pattern(command_str, policy_.deny_commands)
         IN  IF IsSome(deny) THEN RequiresApproval(Unwrap(deny))
             ELSE IF IsSome(forbidden) THEN Forbidden(Unwrap(forbidden))
             ELSE CheckCommands_deny_first(Tail(commands), policy_)

\* the loop of check_command_against_deny_list over the inner commands
RECURSIVE CheckCommands(_, _)
CheckCommands(commands, policy_) ==
    IF commands = <<>> THEN Allowed
    ELSE LET command_str == JoinWithSpace(Head(commands))
             forbidden == find_matching_pattern(command_str, policy_.forbidden_commands)
             deny == find_matching_pattern(command_str, policy_.deny_commands)
         IN  IF IsSome(forbidden) THEN Forbidden(Unwrap(forbidden))
             ELSE IF IsSome(deny) THEN RequiresApproval(Unwrap(deny))
             ELSE CheckCommands(Tail(commands), policy_)

\* the inner commands with a shell wrapper never taken apart
InnerCommands_whole_only(cmd) == <<cmd>>

\* parse_shell_lc_plain_commands(command).unwrap_or_else(|| vec![command.to_vec()])
InnerCommands(cmd) == UnwrapOr(parse_shell_lc_plain_commands(cmd), <<cmd>>)

\* check_command_against_deny_list
check_command_against_deny_list(cmd, policy_) ==
    CheckCommands(InnerCommands(cmd), policy_)

(* The commands and policies the model draws from *)

RmPattern == Regex("rm", FALSE, <<Lit("rm")>>)
RmRfRootPattern ==
    Regex("rm\\s+-rf\\s+/", FALSE,
          <<Lit("rm"), Spaces, Lit("-rf"), Spaces, Lit("/")>>)
ForcePushPattern ==
    Regex("git\\s+push\\s+--force", FALSE,
          <<Lit("git"), Spaces, Lit("push"), Spaces, Lit("--force")>>)
GitPattern ==
    Regex("^git\\s+(push|reset)", TRUE,
          <<Lit("git"), Spaces, Alt({"push", "reset"})>>)

PatternLists ==
    {<<>>, <<RmPattern>>, <<RmRfRootPattern>>, <<ForcePushPattern>>,
     <<GitPattern, ForcePushPattern>>, <<RmRfRootPattern, RmPattern>>}

SecurityPolicy(deny, forbidden) ==
    [deny_commands |-> deny, forbidden_commands |-> forbidden]

SecurityPolicies ==
    { SecurityPolicy(deny, forbidden) : deny \in PatternLists, forbidden \in PatternLists }

Scripts ==
    {"git reset --hard HEAD~1",
     "echo hello && git push --force && echo done",
     "git push --force && rm -rf /",
     "rm -rf / && git push --force",
     "ls -la ; git status",
     "echo hi > rm.txt",
     "git push > log.txt"}

Commands ==
    {<<"ls", "-la">>, <<"rm", "-rf", "/">>, <<"rm", "file.txt">>,
     <<"git", "push", "--force">>, <<"git", "status">>, <<"git", "reset">>,
     <<"echo", "format">>, <<"bash", "-x", "rm -rf /">>}
    \cup { <<"bash", "-lc", script>> : script \in Scripts }
    \cup { <<"zsh", "-c", "ls -la && git push">> }

----------------------------------------------------------------------------
(* Two calls served at once.  Each call has its own producer task with its *)
(* own locals and its own channel; the runtime interleaves the tasks and   *)
(* the consumers.                                                          *)

StreamIds == {1, 2}

\* a call not made yet
IdleStream ==
    [kind |-> "none", pc |-> "start", polled |-> <<>>, response |-> None,
     assistant_item |-> None, completed_sent |-> FALSE, last_usage |-> None,
     function_call_counter |-> 0, queue |-> <<>>, received |-> <<>>]

Init ==
    /\ pc = "start"
    /\ polled = <<>>
    /\ assistant_item = None
    /\ completed_sent = FALSE
    /\ last_usage = None
    /\ function_call_counter = 0
    /\ sent = <<>>
    /\ chan = None
    /\ policy = None
    /\ attempts = <<>>
    /\ response = None
    /\ stream_result = None
    /\ base_url = None
    /\ model = None
    /\ url = None
    /\ outbox = <<>>
    /\ queue = <<>>
    /\ rx = "none"
    /\ received = <<>>
    /\ discarded = <<>>
    /\ command = None
    /\ security_policy = None
    /\ check_result = None
    /\ prompt = None
    /\ request = None
    /\ headers = <<>>
    /\ auth = None
    /\ request_body = None
    /\ extra_headers = <<>>
    /\ requests = <<>>
    /\ tasks = <<>>
    /\ streams = [i \in StreamIds |-> IdleStream]

sseVars == <<polled, assistant_item, completed_sent, last_usage>>
requestVars == <<headers, auth, request_body, extra_headers, requests>>
clientVars == <<policy, attempts, response, stream_result, base_url, model, url, requestVars>>
builderVars == <<prompt, request>>
denyVars == <<command, security_policy, check_result>>
chanVars == <<outbox, queue, rx, received, discarded>>

\* spawn_gemini_stream: the channel and the producer task of the parser
spawn_gemini_stream ==
    /\ pc = "start"
    /\ pc' = "sse"
    /\ chan' = Some(SseChannelCapacity)
    /\ tasks' = <<ProducerTask("process_gemini_sse", SseChannelCapacity)>>
    /\ UNCHANGED <<streams, denyVars, builderVars, chanVars, sseVars, clientVars, function_call_counter, sent>>

\* the loop polls an SSE event
PollEvent ==
    /\ pc = "sse"
    /\ Len(polled) < MaxChunks
    /\ \E data \in Payloads :
          /\ polled' = Append(polled, data)
          /\ Iterate(HandleSseEvent(Locals, data))
    /\ UNCHANGED <<streams, tasks, denyVars, builderVars, chanVars, clientVars, chan>>

\* the loop polls the end of the source stream
PollEnd ==
    /\ pc = "sse"
    /\ polled' = Append(polled, EndOfStream)
    /\ Iterate(HandleEnd(Locals))
    /\ UNCHANGED <<streams, tasks, denyVars, builderVars, chanVars, clientVars, chan>>

\* the loop polls a transport error
PollTransportError ==
    /\ pc = "sse"
    /\ polled' = Append(polled, TransportFailed)
    /\ Iterate(HandleTransportError(Locals, NetworkMessage))
    /\ UNCHANGED <<streams, tasks, denyVars, builderVars, chanVars, clientVars, chan>>

\* the idle timeout fires before the next event
PollIdleTimeout ==
    /\ pc = "sse"
    /\ polled' = Append(polled, TimedOut)
    /\ Iterate(HandleIdleTimeout(Locals))
    /\ UNCHANGED <<streams, tasks, denyVars, builderVars, chanVars, clientVars, chan>>

\* GeminiClient::new with a provider
GeminiClientNew ==
    /\ pc = "start"
    /\ \E p \in Policies : policy' = Some(p)
    /\ \E b \in BaseUrls : base_url' = Some(b)
    /\ \E c \in ClientConfigs :
          /\ headers' = c.headers
          /\ auth' = c.auth
    /\ pc' = "client"
    /\ UNCHANGED <<streams, tasks, denyVars, builderVars, chanVars, sseVars, function_call_counter, sent, chan, attempts,
                   response, stream_result, model, url, request_body, extra_headers,
                   requests>>

\* GeminiClient::stream: one attempt of the executor and, when the executor
\* returns, the rest of stream()
stream ==
    /\ pc = "client"
    /\ IF attempts = <<>>
       THEN \E c \in StreamCalls :
               /\ model' = Some(c.model)
               /\ url' = Some(gemini_url_for_model(Unwrap(base_url), c.model))
               /\ request_body' = Some(c.body)
               /\ extra_headers' = c.extra_headers
       ELSE UNCHANGED <<model, url, request_body, extra_headers>>
    /\ requests' = Append(requests,
                          builder(Unwrap(url'), headers, Unwrap(request_body'),
                                  extra_headers', auth))
    /\ \E att \in Attempts :
          LET result == run_with_request_telemetry(Unwrap(policy),
                                                   Len(attempts) + 1, att)
              after == StreamAfterExecute(result)
          IN  /\ attempts' = Append(attempts, att)
              /\ IF result.kind = "Retry"
                 THEN UNCHANGED <<pc, stream_result, chan, response, tasks>>
                 ELSE /\ pc' = after.pc
                      /\ tasks' = after.tasks
                      /\ stream_result' = after.stream_result
                      /\ chan' = after.chan
                      /\ response' = after.response
    /\ UNCHANGED <<streams, denyVars, builderVars, chanVars, sseVars, function_call_counter, sent, policy, base_url,
                   headers, auth>>

\* the producer task spawned by stream()
EmitGeminiEvents ==
    /\ pc = "batch"
    /\ LET bt == emit_gemini_events(Unwrap(response))
       IN  /\ sent' = sent \o bt.out
           /\ function_call_counter' = bt.function_call_counter
    /\ pc' = "done"
    /\ UNCHANGED <<streams, tasks, denyVars, builderVars, chanVars, sseVars, clientVars, chan>>

\* GeminiRequestBuilder::new(..).build(provider)
BuildRequest ==
    /\ pc = "start"
    /\ \E p \in Prompts :
          /\ prompt' = Some(p)
          /\ request' = Some(build(p))
    /\ pc' = "built"
    /\ UNCHANGED <<streams, tasks, denyVars, chanVars, sseVars, clientVars, function_call_counter, sent,
                   chan>>

\* check_command_against_deny_list called with a command and a policy
CheckCommand ==
    /\ pc = "start"
    /\ \E cmd \in Commands, p \in SecurityPolicies :
          /\ command' = Some(cmd)
          /\ security_policy' = Some(p)
          /\ check_result' = Some(check_command_against_deny_list(cmd, p))
    /\ pc' = "checked"
    /\ UNCHANGED <<streams, tasks, builderVars, chanVars, sseVars, clientVars,
                   function_call_counter, sent, chan>>

Next ==
    \/ spawn_gemini_stream
    \/ PollEvent
    \/ PollEnd
    \/ PollTransportError
    \/ PollIdleTimeout
    \/ GeminiClientNew
    \/ stream
    \/ EmitGeminiEvents
    \/ BuildRequest
    \/ CheckCommand

Spec == Init /\ [][Next]_vars

----------------------------------------------------------------------------
(* Vocabulary of the properties *)

SseProducer == chan = Some(SseChannelCapacity)
SseDone == pc = "done" /\ SseProducer
BatchDone == pc = "done" /\ chan = Some(BatchChannelCapacity)

Indices(s, P(_)) == { i \in 1..Len(s) : P(s[i]) }
Count(s, P(_)) == Cardinality(Indices(s, P))

IsCompleted(e) == e.tag = "Completed"
IsErr(e) == e.tag = "Err"
IsAdded(e) == e.tag = "OutputItemAdded"
IsDelta(e) == e.tag = "OutputTextDelta"
IsMessageDone(e) == e.tag = "OutputItemDone" /\ e.item.type = "Message"
IsCallDone(e) == e.tag = "OutputItemDone" /\ e.item.type = "FunctionCall"

Prefix(s, n) == SubSeq(s, 1, n)

\* number of messages announced and not yet closed in s
OpenMessages(s) == Count(s, IsAdded) - Count(s, IsMessageDone)

\* candidates of a polled SSE event (none for a blank or unparsable one)
CandidatesOf(data) ==
    IF data.kind = "json" /\ IsSome(data.value.candidates)
    THEN Unwrap(data.value.candidates) ELSE <<>>

HasReason(data, reason) ==
    \E i \in 1..Len(CandidatesOf(data)) :
        CandidatesOf(data)[i].finish_reason = Some(reason)

----------------------------------------------------------------------------
\* C1: streaming parser: a run that ends without an error item has emitted
\* exactly one Completed event, and that event is the last item on the
\* channel.
C1_CompletedOnceAndLast ==
    (SseDone /\ Count(sent, IsErr) = 0)
        => /\ Count(sent, IsCompleted) = 1
           /\ IsCompleted(Last(sent))

\* C2: streaming parser: in every run, whatever the chunks and however the
\* run ends, the Completed event is emitted at most once.
C2_CompletedAtMostOnce ==
    SseProducer => Count(sent, IsCompleted) <= 1

\* two chunks that both carry STOP, then the end of input, and one Completed
C2_Witness ==
    /\ SseDone
    /\ Len(polled) = 3
    /\ HasReason(polled[1], "STOP")
    /\ HasReason(polled[2], "STOP")
    /\ polled[3] = EndOfStream
    /\ Count(sent, IsCompleted) = 1

\* C3: streaming parser: OutputItemAdded precedes the deltas of its message,
\* the deltas precede its OutputItemDone, at most one message is open at a
\* time, and every OutputItemDone(Message) closes an open message.
C3_MessageEventOrder ==
    SseProducer =>
        \A i \in 1..Len(sent) :
            LET open == OpenMessages(Prefix(sent, i - 1))
            IN  /\ open \in {0, 1}
                /\ IsAdded(sent[i]) => open = 0
                /\ IsDelta(sent[i]) => open = 1
                /\ IsMessageDone(sent[i]) => open = 1

\* a message of two deltas closed, and a second message opened after it
C3_Witness ==
    /\ SseDone
    /\ Count(sent, IsAdded) = 2
    /\ \E i \in 1..Len(sent) :
          IsMessageDone(sent[i]) /\ Len(sent[i].item.content) = 2

RECURSIVE ConcatDeltas(_, _, _)
ConcatDeltas(s, lo, hi) ==
    IF lo > hi THEN ""
    ELSE (IF IsDelta(s[lo]) THEN s[lo].text ELSE "") \o ConcatDeltas(s, lo + 1, hi)

RECURSIVE FullText(_)
FullText(content) ==
    IF content = <<>> THEN ""
    ELSE Head(content).text \o FullText(Tail(content))

\* index of the last OutputItemDone(Message) before position i, or 0
PreviousMessageDone(s, i) ==
    LET earlier == { j \in 1..(i - 1) : IsMessageDone(s[j]) }
    IN  IF earlier = {} THEN 0
        ELSE CHOOSE j \in earlier : \A k \in earlier : k <= j

\* C4: streaming parser and batch replay: the deltas emitted for a message,
\* concatenated in emission order, equal the full text of the message its
\* OutputItemDone carries.
C4_DeltasConcatenateToMessage ==
    \A i \in 1..Len(sent) :
        IsMessageDone(sent[i]) =>
            ConcatDeltas(sent, PreviousMessageDone(sent, i) + 1, i - 1)
                = FullText(sent[i].item.content)

\* a streamed message of the two deltas "a" and "b"
C4_Witness ==
    /\ SseDone
    /\ \E i \in 1..Len(sent) :
          /\ IsMessageDone(sent[i])
          /\ FullText(sent[i].item.content) = "ab"
          /\ Len(sent[i].item.content) = 2

\* a replayed message of the two deltas "a" and "b"
C4_WitnessBatch ==
    /\ BatchDone
    /\ \E i \in 1..Len(sent) :
          IsMessageDone(sent[i]) /\ FullText(sent[i].item.content) = "ab"

----------------------------------------------------------------------------
(* The content of candidates, read off the input *)

PartsOf(candidate) ==
    IF IsSome(candidate.content) /\ IsSome(Unwrap(candidate.content).parts)
    THEN Unwrap(Unwrap(candidate.content).parts) ELSE <<>>

HasText(part) == IsSome(part.text) /\ Unwrap(part.text) # ""
HasCall(part) == IsSome(part.function_call)

RECURSIVE TextsOfParts(_)
TextsOfParts(parts) ==
    IF parts = <<>> THEN <<>>
    ELSE (IF HasText(Head(parts)) THEN <<Unwrap(Head(parts).text)>> ELSE <<>>)
            \o TextsOfParts(Tail(parts))

\* the non-empty texts of the first k candidates, in order
RECURSIVE TextsOfCandidates(_, _)
TextsOfCandidates(cs, k) ==
    IF k = 0 THEN <<>>
    ELSE TextsOfCandidates(cs, k - 1) \o TextsOfParts(PartsOf(cs[k]))

RECURSIVE DeltaTexts(_)
DeltaTexts(s) ==
    IF s = <<>> THEN <<>>
    ELSE (IF IsDelta(Head(s)) THEN <<Head(s).text>> ELSE <<>>) \o DeltaTexts(Tail(s))

\* the two-state machine of the parser: is a message pending after parts,
\* when pending says whether one was pending before them
RECURSIVE PendingAfterParts(_, _)
PendingAfterParts(pending, parts) ==
    IF parts = <<>> THEN pending
    ELSE PendingAfterParts(~HasCall(Head(parts)) /\ (pending \/ HasText(Head(parts))),
                           Tail(parts))

\* ... after the content of candidate k, the candidates before k processed
\* in full
RECURSIVE PendingAtReason(_, _, _)
PendingAtReason(pending, cs, k) ==
    IF k = 1 THEN PendingAfterParts(pending, PartsOf(cs[1]))
    ELSE LET before == PendingAtReason(pending, cs, k - 1)
             closed == IF cs[k - 1].finish_reason = Some("STOP") THEN FALSE ELSE before
         IN  PendingAfterParts(closed, PartsOf(cs[k]))

IsFatal(candidate) == candidate.finish_reason \in {Some("MAX_TOKENS"), Some("SAFETY")}

\* position of the first candidate with MAX_TOKENS or SAFETY, or 0
FirstFatal(cs) ==
    LET fatal == { i \in 1..Len(cs) : IsFatal(cs[i]) }
    IN  IF fatal = {} THEN 0
        ELSE CHOOSE i \in fatal : \A j \in fatal : i <= j

\* the parser takes a step on an SSE event whose first fatal finish reason
\* is reason
FatalReasonStep(reason) ==
    /\ pc = "sse"
    /\ Len(polled') = Len(polled) + 1
    /\ LET cs == CandidatesOf(Last(polled'))
       IN  /\ FirstFatal(cs) # 0
           /\ cs[FirstFatal(cs)].finish_reason = Some(reason)

FatalCandidates == CandidatesOf(Last(polled'))

\* C5: streaming parser: on a candidate with finish reason MAX_TOKENS the
\* parser emits the candidate's content, then exactly one
\* ContextWindowExceeded error as its last item, and ends at once: no
\* Completed follows and a pending message is left unflushed.
C5_MaxTokensEndsStream ==
    [][ /\ FatalReasonStep("MAX_TOKENS") =>
             /\ pc' = "done"
             /\ Len(sent') > Len(sent)
             /\ Prefix(sent', Len(sent)) = sent
             /\ Last(sent') = Err(ContextWindowExceeded)
             /\ Count(sent', IsErr) = 1
             /\ DeltaTexts(sent') =
                    DeltaTexts(sent)
                        \o TextsOfCandidates(FatalCandidates, FirstFatal(FatalCandidates))
             /\ (OpenMessages(sent') = 1) =
                    PendingAtReason(OpenMessages(sent) = 1, FatalCandidates,
                                    FirstFatal(FatalCandidates))
        /\ (SseDone /\ Last(sent) = Err(ContextWindowExceeded)) => sent' = sent
      ]_vars

\* the test's input: text "a" with MAX_TOKENS; the delta is sent, the
\* message stays open, the error is last
C5_Witness ==
    /\ SseDone
    /\ HasReason(Last(polled), "MAX_TOKENS")
    /\ Len(sent) >= 3
    /\ Last(sent) = Err(ContextWindowExceeded)
    /\ IsDelta(sent[Len(sent) - 1])
    /\ OpenMessages(sent) = 1

\* C6: streaming parser: on a candidate with finish reason SAFETY the parser
\* emits exactly one stream-failure error, after every text delta emitted
\* before, and ends the stream: nothing follows, no Completed either.
C6_SafetyEndsStream ==
    [][ /\ FatalReasonStep("SAFETY") =>
             /\ pc' = "done"
             /\ Last(sent') = Err(StreamError(SafetyMessage))
             /\ Count(sent', IsErr) = 1
             /\ Len(sent') > Len(sent)
             /\ Prefix(sent', Len(sent)) = sent
             /\ DeltaTexts(Prefix(sent', Len(sent') - 1)) =
                    DeltaTexts(sent)
                        \o TextsOfCandidates(FatalCandidates, FirstFatal(FatalCandidates))
        /\ (SseDone /\ Last(sent) = Err(StreamError(SafetyMessage))) => sent' = sent
      ]_vars

\* text was streamed, then a chunk with SAFETY ended the stream
C6_Witness ==
    /\ SseDone
    /\ HasReason(Last(polled), "SAFETY")
    /\ Last(sent) = Err(StreamError(SafetyMessage))
    /\ Count(sent, IsDelta) >= 1
    /\ Count(sent, IsCompleted) = 0

\* the run read one parsable chunk and then ended by itself or at the end of
\* the input
SingleChunkRun ==
    /\ SseDone
    /\ polled[1].kind = "json"
    /\ \/ Len(polled) = 1
       \/ Len(polled) = 2 /\ polled[2] = EndOfStream

\* C7: batch replay produces the event sequence the streaming parser
\* produces for the same response delivered as one chunk followed by the end
\* of input.
C7_BatchEqualsStreaming ==
    SingleChunkRun => sent = emit_gemini_events(Unwrap(ParseBody(polled[1]))).out

----------------------------------------------------------------------------
(* The replay as the specification words it, on events reduced to what the *)
(* specification mentions                                                  *)

Abstract(e) ==
    IF IsDelta(e) THEN [kind |-> "delta", text |-> e.text]
    ELSE IF IsAdded(e) THEN [kind |-> "added"]
    ELSE IF IsErr(e) THEN [kind |-> "error"]
    ELSE IF IsCompleted(e) THEN [kind |-> "completed", usage |-> e.token_usage]
    ELSE IF IsMessageDone(e) THEN [kind |-> "message"]
    ELSE [kind |-> "call", name |-> e.item.name]

AbstractAll(s) == [i \in 1..Len(s) |-> Abstract(s[i])]

RECURSIVE ExpectedParts(_)
ExpectedParts(parts) ==
    IF parts = <<>> THEN <<>>
    ELSE (IF HasText(Head(parts))
          THEN <<[kind |-> "delta", text |-> Unwrap(Head(parts).text)]>> ELSE <<>>)
         \o (IF HasCall(Head(parts))
             THEN <<[kind |-> "call", name |-> Unwrap(Head(parts).function_call).name]>>
             ELSE <<>>)
         \o ExpectedParts(Tail(parts))

ExpectedCandidate(candidate) ==
    ExpectedParts(PartsOf(candidate))
        \o (IF TextsOfParts(PartsOf(candidate)) # <<>>
            THEN <<[kind |-> "message"]>> ELSE <<>>)

RECURSIVE ExpectedCandidates(_)
ExpectedCandidates(cs) ==
    IF cs = <<>> THEN <<>>
    ELSE ExpectedCandidate(Head(cs)) \o ExpectedCandidates(Tail(cs))

CountOrZero(o) == IF o = None THEN 0 ELSE o[1]

ExpectedUsage(usage_metadata) ==
    IF usage_metadata = None THEN None
    ELSE Some([input_tokens |-> CountOrZero(usage_metadata[1].prompt_token_count),
               output_tokens |-> CountOrZero(usage_metadata[1].candidates_token_count),
               cached_input_tokens |-> 0,
               reasoning_output_tokens |-> 0,
               total_tokens |-> CountOrZero(usage_metadata[1].total_token_count)])

ResponseCandidates(resp) ==
    IF IsSome(resp.candidates) THEN Unwrap(resp.candidates) ELSE <<>>

\* C8: batch replay of a response without MAX_TOKENS or SAFETY: per
\* candidate and per part in order a delta for each non-empty text and an
\* OutputItemDone for each function call, then one message OutputItemDone
\* iff the candidate produced text, and last exactly one Completed with the
\* response's usage (missing counters 0, none when the metadata is absent).
C8_BatchReplaySequence ==
    (BatchDone /\ FirstFatal(ResponseCandidates(Unwrap(response))) = 0)
        => AbstractAll(sent) =
               ExpectedCandidates(ResponseCandidates(Unwrap(response)))
                   \o <<[kind |-> "completed",
                         usage |-> ExpectedUsage(Unwrap(response).usage_metadata)]>>

\* two candidates replayed: text with its message, then a function call
\* without one
C8_Witness ==
    /\ BatchDone
    /\ Len(ResponseCandidates(Unwrap(response))) = 2
    /\ FirstFatal(ResponseCandidates(Unwrap(response))) = 0
    /\ Count(sent, IsMessageDone) = 1
    /\ Count(sent, IsCallDone) = 1
    /\ IsCallDone(sent[Len(sent) - 1])
    /\ IsCompleted(Last(sent))

----------------------------------------------------------------------------
(* GeminiClient::stream *)

Succeeded(att) == att.outcome = "ok"

ResultIsErr == IsSome(stream_result) /\ Unwrap(stream_result)[1] = "Err"
ResultIsOk == stream_result = Some(<<"Ok">>)

\* C9: the event channel and the producer exist only once the executor has
\* returned a successful response: every attempt before the last failed, the
\* producer replays the last attempt's response, and while the executor
\* retries or after stream() failed nothing is on a channel.
C9_RetriesBeforeEvents ==
    /\ pc \in {"client", "failed"} => chan = None /\ sent = <<>>
    /\ pc \in {"batch", "done"} /\ ~SseProducer =>
          /\ chan = Some(BatchChannelCapacity)
          /\ ResultIsOk
          /\ attempts # <<>>
          /\ Succeeded(Last(attempts))
          /\ \A i \in 1..(Len(attempts) - 1) : ~Succeeded(attempts[i])
          /\ response = ParseBody(Last(attempts).body)
    /\ sent # <<>> /\ ~SseProducer => chan # None /\ pc = "done"

\* a failed attempt was retried, the second one succeeded and its events
\* were replayed
C9_Witness ==
    /\ BatchDone
    /\ Len(attempts) = 2
    /\ ~Succeeded(attempts[1])
    /\ Len(sent) >= 2

\* the executor gave up: the last attempt failed
RetriesExhausted == pc = "failed" /\ ~Succeeded(Last(attempts))
\* the response body could not be parsed
BodyUnparsable == pc = "failed" /\ Succeeded(Last(attempts))
\* the parser met MAX_TOKENS or SAFETY, or the idle timeout fired
ParserFatal ==
    \/ BatchDone /\ FirstFatal(ResponseCandidates(Unwrap(response))) # 0
    \/ SseDone /\ FirstFatal(CandidatesOf(Last(polled))) # 0
    \/ SseDone /\ Last(polled) = TimedOut

----------------------------------------------------------------------------
(* Steps of the streaming parser, told by what is polled *)

\* the loop takes a step on a poll of the given kinds
PollStep(kinds) ==
    /\ pc = "sse"
    /\ Len(polled') = Len(polled) + 1
    /\ Last(polled').kind \in kinds

\* C11: streaming parser: when the idle timeout fires while the producer
\* waits for the next chunk, it sends one stream-failure error citing the
\* idle timeout and terminates; that error is the final item: no Completed
\* and no OutputItemDone for a pending message is sent.
C11_IdleTimeoutEndsStream ==
    [][ /\ PollStep({"timeout"}) =>
             /\ pc' = "done"
             /\ sent' = Append(sent, Err(StreamError("idle timeout waiting for SSE")))
             /\ Count(sent', IsErr) = 1
             /\ OpenMessages(sent') = OpenMessages(sent)
        /\ (SseDone /\ Last(polled) = TimedOut) => sent' = sent
      ]_vars

\* a message was open and no Completed sent when the timeout fired
C11_Witness ==
    /\ SseDone
    /\ Last(polled) = TimedOut
    /\ Len(polled) = 2
    /\ OpenMessages(sent) = 1
    /\ Count(sent, IsCompleted) = 0
    /\ Last(sent) = Err(StreamError(IdleMessage))

\* usage metadata of the last polled event that carried any, or None
RECURSIVE LastSeenUsage(_)
LastSeenUsage(ps) ==
    IF ps = <<>> THEN None
    ELSE IF Last(ps).kind = "json" /\ IsSome(Last(ps).value.usage_metadata)
    THEN Last(ps).value.usage_metadata
    ELSE LastSeenUsage(Prefix(ps, Len(ps) - 1))

\* C12: streaming parser: at the end of the input the parser closes a
\* pending message with OutputItemDone, then, if no Completed was sent
\* before, sends one Completed built from the last-seen usage metadata (no
\* usage when none was seen), and terminates.
C12_EndOfInputCompletes ==
    [][ PollStep({"end"}) =>
          LET flush == IF OpenMessages(sent) = 1 THEN 1 ELSE 0
              complete == IF Count(sent, IsCompleted) = 0 THEN 1 ELSE 0
          IN  /\ pc' = "done"
              /\ Len(sent') = Len(sent) + flush + complete
              /\ Prefix(sent', Len(sent)) = sent
              /\ flush = 1 => IsMessageDone(sent'[Len(sent) + 1])
              /\ OpenMessages(sent') = 0
              /\ complete = 1 =>
                    Last(sent') = [tag |-> "Completed", response_id |-> "",
                                   token_usage |-> ExpectedUsage(LastSeenUsage(polled))]
      ]_vars

\* usage arrived on one chunk, text on the next, then the input ended: the
\* message is closed and Completed carries the usage
C12_Witness ==
    /\ SseDone
    /\ Last(polled) = EndOfStream
    /\ ~HasReason(polled[1], "STOP")
    /\ Len(sent) >= 4
    /\ IsMessageDone(sent[Len(sent) - 1])
    /\ IsCompleted(Last(sent))
    /\ Last(sent).token_usage # None

Locals0 ==
    [assistant_item |-> None, completed_sent |-> FALSE, last_usage |-> None,
     function_call_counter |-> 0, out |-> <<>>, returned |-> FALSE]

HandlePoll(st, p) ==
    CASE p.kind = "end" -> HandleEnd(st)
      [] p.kind = "error" -> HandleTransportError(st, NetworkMessage)
      [] p.kind = "timeout" -> HandleIdleTimeout(st)
      [] OTHER -> HandleSseEvent(st, p)

\* the parser run from its start over the polls ps
RECURSIVE Run(_, _)
Run(st, ps) ==
    IF ps = <<>> \/ st.returned THEN st
    ELSE Run(HandlePoll(st, Head(ps)), Tail(ps))

IsBadChunk(p) == p.kind \in {"blank", "garbage"}
WithoutBadChunks(ps) == SelectSeq(ps, LAMBDA p : ~IsBadChunk(p))

\* C13: streaming parser: an empty or unparsable chunk is skipped: it emits
\* nothing, leaves pending message, completed flag, last usage and
\* function-call counter unchanged, the stream continues, and the events
\* produced are those of the same polls with the bad chunks removed.
C13_BadChunkSkipped ==
    [][ /\ PollStep({"blank", "garbage"}) =>
             /\ pc' = "sse"
             /\ UNCHANGED <<sent, assistant_item, completed_sent, last_usage,
                            function_call_counter>>
        /\ SseProducer' => sent' = Run(Locals0, WithoutBadChunks(polled')).out
      ]_vars

\* an unparsable chunk between a text chunk and the end of input
C13_Witness ==
    /\ SseDone
    /\ Len(polled) = 3
    /\ polled[1].kind = "json"
    /\ polled[2] = Garbage
    /\ polled[3] = EndOfStream
    /\ Count(sent, IsDelta) >= 1
    /\ IsCompleted(Last(sent))

----------------------------------------------------------------------------
(* The retry executor as stream() drives it *)

\* the policy flag of the class of a failed attempt; no class, no retry
ClassFlag(p, outcome) ==
    CASE outcome = "transport" -> p.retry_transport
      [] outcome = "http_429" -> p.retry_429
      [] outcome = "http_5xx" -> p.retry_5xx
      [] OTHER -> FALSE

\* C15: per stream() call the send function is called at most max_attempts
\* times; an attempt is followed by another only if it failed in a class
\* whose policy flag is set; a non-retryable outcome (4xx other than 429)
\* ends the call at once, the remaining attempts unused.
C15_RetryPolicyRespected ==
    IsSome(policy) =>
        LET p == Unwrap(policy)
        IN  /\ Len(attempts) <= p.max_attempts
            /\ \A i \in 1..(Len(attempts) - 1) :
                  ~Succeeded(attempts[i]) /\ ClassFlag(p, attempts[i].outcome)
            /\ (pc = "client" /\ attempts # <<>>) =>
                  /\ ~Succeeded(Last(attempts))
                  /\ ClassFlag(p, Last(attempts).outcome)
                  /\ Len(attempts) < p.max_attempts
            /\ \A i \in 1..Len(attempts) :
                  (~Succeeded(attempts[i]) /\ ~ClassFlag(p, attempts[i].outcome))
                      => i = Len(attempts) /\ pc = "failed"

\* a 400 on the first of two allowed attempts ended the call
C15_Witness ==
    /\ pc = "failed"
    /\ IsSome(policy)
    /\ Unwrap(policy).max_attempts = 2
    /\ Len(attempts) = 1
    /\ attempts[1].outcome = "http_4xx"

\* both allowed attempts were used on a retryable failure
C15_WitnessExhausted ==
    /\ pc = "failed"
    /\ IsSome(policy)
    /\ Unwrap(policy).max_attempts = 2
    /\ Len(attempts) = 2
    /\ attempts[1].outcome = "http_5xx"
    /\ attempts[2].outcome = "http_5xx"

----------------------------------------------------------------------------
(* The request builder *)

Built == pc = "built"
BuiltPrompt == Unwrap(prompt)
BuiltBody == Unwrap(request).body
BuiltContents == BuiltBody.contents

\* a content part the vendor format has a part for
KeepsPart(c) ==
    IF c.type \in {"InputText", "OutputText"}
    THEN c.text # ""
    ELSE (c.image_url # <<>> /\ c.image_url[1] = "data:")
             => \E i \in 1..Len(c.image_url) : c.image_url[i] = ","

\* an input item that has an entry in contents
Contributes(item) ==
    \/ item.type \in {"FunctionCall", "FunctionCallOutput"}
    \/ /\ item.type = "Message"
       /\ \E i \in 1..Len(item.content) : KeepsPart(item.content[i])

Contributing(input) == { i \in 1..Len(input) : Contributes(input[i]) }

\* index in contents of the entry of the contributing item input[i]
EntryOf(input, i) == Cardinality({ j \in 1..i : Contributes(input[j]) })

EntryKind(entry) ==
    IF "functionCall" \in DOMAIN entry.parts[1] THEN "FunctionCall"
    ELSE IF "functionResponse" \in DOMAIN entry.parts[1] THEN "FunctionCallOutput"
    ELSE "Message"

\* C16: non-empty instructions give a systemInstruction of exactly one text
\* part, the instructions verbatim; empty instructions give a body without
\* the systemInstruction field.
C16_SystemInstruction ==
    Built =>
        IF BuiltPrompt.instructions # ""
        THEN /\ "systemInstruction" \in DOMAIN BuiltBody
             /\ DOMAIN BuiltBody.systemInstruction = {"parts"}
             /\ BuiltBody.systemInstruction.parts =
                    <<[text |-> BuiltPrompt.instructions]>>
        ELSE "systemInstruction" \notin DOMAIN BuiltBody

\* the instructions are one blank: still a systemInstruction, verbatim
C16_Witness ==
    /\ Built
    /\ BuiltPrompt.instructions = " "
    /\ BuiltBody.systemInstruction.parts[1].text = " "
    /\ BuiltContents # <<>>

\* C17: every role maps to "user" or "model": "assistant" to "model", every
\* other role, recognised or not, to "user"; the build succeeds whatever
\* the roles.
C17_RoleMappingTotal ==
    Built =>
        /\ Unwrap(request).tag = "Ok"
        /\ Len(BuiltContents) = Cardinality(Contributing(BuiltPrompt.input))
        /\ \A i \in Contributing(BuiltPrompt.input) :
              BuiltPrompt.input[i].type = "Message" =>
                  LET entry == BuiltContents[EntryOf(BuiltPrompt.input, i)]
                  IN  /\ entry.role \in {"user", "model"}
                      /\ entry.role = "model" <=> BuiltPrompt.input[i].role = "assistant"

\* an assistant message and one of an unrecognised role
C17_Witness ==
    /\ Built
    /\ Len(BuiltPrompt.input) = 2
    /\ BuiltPrompt.input[1] = InputMessage("developer", Hello)
    /\ BuiltPrompt.input[2].type = "Message"
    /\ BuiltPrompt.input[2].role = "assistant"
    /\ Len(BuiltContents) = 2
    /\ BuiltContents[1].role = "user"
    /\ BuiltContents[2].role = "model"

UniqueCallIds(input) ==
    \A i, j \in 1..Len(input) :
        (/\ input[i].type = "FunctionCall"
         /\ input[j].type = "FunctionCall"
         /\ input[i].call_id = input[j].call_id) => i = j

\* C18: when no two function calls of the input share a call_id, a function
\* call output whose call_id is that of a function call of the input,
\* before or after it, becomes a functionResponse named like that call.
C18_CallIdCorrelation ==
    (Built /\ UniqueCallIds(BuiltPrompt.input)) =>
        \A i, j \in 1..Len(BuiltPrompt.input) :
            (/\ BuiltPrompt.input[i].type = "FunctionCallOutput"
             /\ BuiltPrompt.input[j].type = "FunctionCall"
             /\ BuiltPrompt.input[i].call_id = BuiltPrompt.input[j].call_id)
            => LET entry == BuiltContents[EntryOf(BuiltPrompt.input, i)]
               IN  /\ Len(entry.parts) = 1
                   /\ "functionResponse" \in DOMAIN entry.parts[1]
                   /\ entry.parts[1].functionResponse.name = BuiltPrompt.input[j].name

\* the output comes before the call it answers
C18_Witness ==
    /\ Built
    /\ Len(BuiltPrompt.input) = 2
    /\ BuiltPrompt.input[1].type = "FunctionCallOutput"
    /\ BuiltPrompt.input[2].type = "FunctionCall"
    /\ BuiltPrompt.input[1].call_id = BuiltPrompt.input[2].call_id
    /\ BuiltContents[1].parts[1].functionResponse.name = "get_weather"

\* the argument texts that are not JSON
NotJson == {"", "{\"city\": ", "{} trailing"}

\* C19: build returns a request for every input; the unsupported variants
\* have no entry in contents, every other entry being that of its item in
\* input order; a function call whose arguments are not JSON has the empty
\* object as args.
C19_BuildNeverAborts ==
    Built =>
        /\ Unwrap(request).tag = "Ok"
        /\ Len(BuiltContents) = Cardinality(Contributing(BuiltPrompt.input))
        /\ \A i \in 1..Len(BuiltPrompt.input) :
              LET item == BuiltPrompt.input[i]
                  entry == BuiltContents[EntryOf(BuiltPrompt.input, i)]
              IN  /\ item.type \in UnsupportedTypes => i \notin Contributing(BuiltPrompt.input)
                  /\ i \in Contributing(BuiltPrompt.input) => EntryKind(entry) = item.type
                  /\ (item.type = "FunctionCall" /\ item.arguments \in NotJson)
                        => entry.parts[1].functionCall.args = EmptyObject

\* an unsupported item, then a function call whose arguments are not JSON
C19_Witness ==
    /\ Built
    /\ Len(BuiltPrompt.input) = 2
    /\ BuiltPrompt.input[1].type = "Reasoning"
    /\ BuiltPrompt.input[2].type = "FunctionCall"
    /\ BuiltPrompt.input[2].arguments = "{\"city\": "
    /\ Len(BuiltContents) = 1
    /\ BuiltContents[1].parts[1].functionCall.args = EmptyObject

----------------------------------------------------------------------------
(* The endpoint URL *)

\* C20: the URL of a stream() call is the base URL of the provider, then
\* "/models/", the model and ":generateContent", nothing else: it is 24
\* characters longer than the base URL and the model together, however many
\* segments the base URL has.
C20_UrlConstruction ==
    IsSome(url) =>
        /\ Unwrap(url) = Unwrap(base_url) \o "/models/" \o Unwrap(model)
                            \o ":generateContent"
        /\ Len(Unwrap(url)) = Len(Unwrap(base_url)) + Len(Unwrap(model)) + 24

\* the gateway's base URL of four path segments
C20_Witness ==
    /\ pc \in {"client", "batch", "failed", "done"}
    /\ base_url = Some("https://ai-gateway.example.com/google/v1beta1/publishers/google")
    /\ model = Some("gemini-3-pro-preview")
    /\ url = Some("https://ai-gateway.example.com/google/v1beta1/publishers/google/models/gemini-3-pro-preview:generateContent")

\* the URL of the vendor's own base
C20_WitnessVendor ==
    /\ base_url = Some("https://generativelanguage.googleapis.com/v1beta")
    /\ model = Some("gemini-pro")
    /\ url = Some("https://generativelanguage.googleapis.com/v1beta/models/gemini-pro:generateContent")

----------------------------------------------------------------------------
(* The producer task, the channel and the consumer, send by send.          *)
(*                                                                         *)
(* Every send of the two producers is `let _ = tx.send(item).await`: what  *)
(* an iteration sends and the locals it leaves depend on its input only,   *)
(* so an iteration is the handler's step, which fills outbox, followed by  *)
(* one step per send.  pc is "closing" while the sends of a handler that   *)
(* has returned are under way.                                             *)

TextChunk ==
    Json(GeminiResponse(
        Some(<<GeminiCandidate(Some(GeminiContent(Some(<<Ta>>))), None)>>), None))
CallChunk ==
    Json(GeminiResponse(
        Some(<<GeminiCandidate(Some(GeminiContent(Some(<<Ta, Fw, Tb>>))), None)>>),
        None))
StopChunk ==
    Json(GeminiResponse(
        Some(<<GeminiCandidate(Some(GeminiContent(Some(<<Tb>>))), Some("STOP"))>>),
        Some(Usage1)))
MaxTokensChunk ==
    Json(GeminiResponse(
        Some(<<GeminiCandidate(Some(GeminiContent(Some(<<Ta>>))),
                               Some("MAX_TOKENS"))>>), None))

\* the SSE events of the send-by-send model
ChanPayloads == {Garbage, TextChunk, CallChunk, StopChunk, MaxTokensChunk}

\* a response replayed as more items than the batch channel holds: eight
\* candidates of four text parts, five items each
LongResponse ==
    GeminiResponse(
        Some([c \in 1..8 |->
                GeminiCandidate(Some(GeminiContent(Some(<<Ta, Tb, Ta, Tb>>))), None)]),
        Some(Usage1))

\* the responses of the send-by-send model
ChanResponses ==
    {CallChunk.value, StopChunk.value, MaxTokensChunk.value, LongResponse}

\* a send that buffers the item whatever the number of items buffered
mpsc_send_unbounded(receiver, buffered, capacity, item) ==
    IF receiver = "dropped" THEN [result |-> "Err", queue |-> buffered]
    ELSE [result |-> "Ok", queue |-> Append(buffered, item)]

\* tokio mpsc Sender::send(item).await: an error once the receiver is
\* dropped, the item buffered while there is room, pending otherwise
mpsc_send(receiver, buffered, capacity, item) ==
    IF receiver = "dropped" THEN [result |-> "Err", queue |-> buffered]
    ELSE IF Len(buffered) < capacity
         THEN [result |-> "Ok", queue |-> Append(buffered, item)]
         ELSE [result |-> "Pending", queue |-> buffered]

\* a producer that returns when a send fails
AfterSend_return_on_error(position, rest, result) ==
    IF result = "Err"
    THEN [pc |-> "done", outbox |-> <<>>]
    ELSE [pc |-> IF rest = <<>> /\ position = "closing" THEN "done" ELSE position,
          outbox |-> rest]

\* `let _ = tx.send(..).await`: the result is thrown away and the producer
\* goes on to its next send, to the next poll, or returns if it was closing
AfterSend(position, rest, result) ==
    [pc |-> IF rest = <<>> /\ position = "closing" THEN "done" ELSE position,
     outbox |-> rest]

ChanInit ==
    /\ Init

\* spawn_gemini_stream: channel, producer task, receiver handed to the caller
ChanSpawnSse ==
    /\ pc = "start"
    /\ pc' = "sse"
    /\ chan' = Some(SseChannelCapacity)
    /\ rx' = "alive"
    /\ tasks' = <<ProducerTask("process_gemini_sse", SseChannelCapacity)>>
    /\ UNCHANGED <<streams, denyVars, builderVars, sseVars, clientVars, function_call_counter, sent,
                   outbox, queue, received, discarded>>

\* the end of stream() after a parsed response: channel, producer task,
\* receiver handed to the caller; emit_gemini_events up to its sends
ChanSpawnBatch ==
    /\ pc = "start"
    /\ \E r \in ChanResponses :
          LET bt == emit_gemini_events(r)
          IN  /\ response' = Some(r)
              /\ outbox' = bt.out
              /\ function_call_counter' = bt.function_call_counter
              /\ pc' = IF bt.out = <<>> THEN "done" ELSE "closing"
    /\ chan' = Some(BatchChannelCapacity)
    /\ rx' = "alive"
    /\ tasks' = <<ProducerTask("emit_gemini_events", BatchChannelCapacity)>>
    /\ UNCHANGED <<streams, denyVars, builderVars, sseVars, sent, policy, attempts, stream_result,
                   base_url, model, url, requestVars, queue, received, discarded>>

\* one poll of process_gemini_sse and the handler's work up to its sends
ChanPoll ==
    /\ pc = "sse"
    /\ outbox = <<>>
    /\ \E p \in {EndOfStream, TransportFailed, TimedOut}
                \cup (IF Len(polled) < MaxChunks THEN ChanPayloads ELSE {}) :
          LET st == HandlePoll(Locals, p)
          IN  /\ polled' = Append(polled, p)
              /\ assistant_item' = st.assistant_item
              /\ completed_sent' = st.completed_sent
              /\ last_usage' = st.last_usage
              /\ function_call_counter' = st.function_call_counter
              /\ outbox' = st.out
              /\ pc' = IF ~st.returned THEN "sse"
                       ELSE IF st.out = <<>> THEN "done" ELSE "closing"
    /\ UNCHANGED <<streams, tasks, denyVars, builderVars, clientVars, chan, sent, queue, rx, received,
                   discarded>>

\* the next send of the producer completes
SendItem ==
    /\ pc \in {"sse", "closing"}
    /\ outbox # <<>>
    /\ LET item == Head(outbox)
           send == mpsc_send(rx, queue, Unwrap(chan), item)
           after == AfterSend(pc, Tail(outbox), send.result)
       IN  /\ send.result # "Pending"
           /\ queue' = send.queue
           /\ sent' = IF send.result = "Ok" THEN Append(sent, item) ELSE sent
           /\ discarded' = IF send.result = "Err" THEN Append(discarded, item)
                           ELSE discarded
           /\ pc' = after.pc
           /\ outbox' = after.outbox
    /\ UNCHANGED <<streams, tasks, denyVars, builderVars, sseVars, clientVars, function_call_counter, chan,
                   rx, received>>

\* the consumer receives the next item of the ResponseStream
Recv ==
    /\ rx = "alive"
    /\ queue # <<>>
    /\ received' = Append(received, Head(queue))
    /\ queue' = Tail(queue)
    /\ UNCHANGED <<streams, tasks, denyVars, builderVars, sseVars, clientVars, function_call_counter, chan,
                   pc, sent, outbox, rx, discarded>>

\* the consumer drops the ResponseStream, the buffered items with it
DropReceiver ==
    /\ rx = "alive"
    /\ rx' = "dropped"
    /\ queue' = <<>>
    /\ UNCHANGED <<streams, tasks, denyVars, builderVars, sseVars, clientVars, function_call_counter, chan,
                   pc, sent, outbox, received, discarded>>

ChanNext ==
    \/ ChanSpawnSse
    \/ ChanSpawnBatch
    \/ ChanPoll
    \/ SendItem
    \/ Recv
    \/ DropReceiver

ChanSpec == ChanInit /\ [][ChanNext]_vars

\* the runtime runs the producer task whenever it can take a step; a poll
\* returns within the idle timeout
FairChanSpec ==
    ChanSpec /\ WF_vars(ChanPoll) /\ WF_vars(SendItem)

----------------------------------------------------------------------------
(* The dropped receiver *)

BatchProducer == chan = Some(BatchChannelCapacity)

\* everything the producer has sent or has still to send in this iteration
Attempted == sent \o discarded \o outbox

\* a send completes
SendStep == outbox # <<>> /\ outbox' = Tail(outbox)

\* the steps of a run with a dropped receiver
DroppedReceiverSteps ==
    \* a send to the dropped channel fails at once and changes nothing but
    \* the producer's own progress
    /\ (rx = "dropped" /\ SendStep) =>
          /\ discarded' = Append(discarded, Head(outbox))
          /\ pc' = IF pc = "closing" /\ Tail(outbox) = <<>> THEN "done" ELSE pc
          /\ UNCHANGED <<sent, queue, received, polled, assistant_item,
                         completed_sent, last_usage, function_call_counter>>
    \* every later send fails: nothing more is accepted or received
    /\ rx = "dropped" => /\ rx' = "dropped"
                         /\ UNCHANGED <<sent, received, queue>>
    \* the drop does not signal the producer
    /\ (rx = "alive" /\ rx' = "dropped") =>
          UNCHANGED <<pc, outbox, polled, sent, discarded, assistant_item,
                      completed_sent, last_usage, function_call_counter>>
    \* the producer ends by a return of its own, all its sends done
    /\ (pc # "done" /\ pc' = "done") =>
          /\ outbox' = <<>>
          /\ SseProducer => Run(Locals0, polled').returned

\* the producer reads and sends as if the receiver were there
ProducerUnaffected ==
    /\ (SseProducer /\ pc \in {"sse", "closing", "done"}) =>
          /\ Attempted = Run(Locals0, polled).out
          /\ pc = "sse" => ~Run(Locals0, polled).returned
    /\ (BatchProducer /\ pc \in {"closing", "done"}) =>
          Attempted = emit_gemini_events(Unwrap(response)).out

\* C14: once the consumer has dropped the receiver every send of the
\* producer fails at once and silently; the drop does not stop the producer,
\* which polls and sends what it would have sent, the items being discarded,
\* and ends by a return of its own; with the source ending or the idle
\* timeout firing it does end, never blocked on a send.
C14_DroppedReceiver ==
    /\ [][DroppedReceiverSteps]_vars
    /\ []ProducerUnaffected
    /\ (rx = "dropped") ~> (pc = "done")

\* the receiver was dropped during the sends of the first event; the
\* producer has polled a second event and the end of the stream since
C14_Witness ==
    /\ SseProducer
    /\ pc = "done"
    /\ rx = "dropped"
    /\ Len(polled) = 3
    /\ polled[2].kind = "json"
    /\ polled[3] = EndOfStream
    /\ sent # <<>>
    /\ Len(sent) < Len(Run(Locals0, <<polled[1]>>).out)
    /\ IsCompleted(Last(discarded))

\* the batch producer was blocked on the full channel when the receiver was
\* dropped
C14_WitnessBlocked ==
    /\ BatchProducer
    /\ pc = "done"
    /\ rx = "dropped"
    /\ received = <<>>
    /\ Len(sent) = BatchChannelCapacity
    /\ IsCompleted(Last(discarded))

----------------------------------------------------------------------------
(* The security deny list *)

Checked == pc = "checked"
CheckedCommand == Unwrap(command)
CheckedPolicy == Unwrap(security_policy)
CheckResult == Unwrap(check_result)

\* the inner commands of the checked command, as texts
InnerTexts ==
    LET inner == InnerCommands(CheckedCommand)
    IN  [i \in 1..Len(inner) |-> JoinWithSpace(inner[i])]

MatchesAny(text, patterns) ==
    \E i \in 1..Len(patterns) : is_match(patterns[i], text)

MatchesForbidden(text) == MatchesAny(text, CheckedPolicy.forbidden_commands)
MatchesDeny(text) == MatchesAny(text, CheckedPolicy.deny_commands)

\* C21: the result is Forbidden as soon as some inner command matches a
\* forbidden pattern, wherever it stands and whatever the others match.
C21_ForbiddenAnyPosition ==
    Checked =>
        ((\E i \in 1..Len(InnerTexts) : MatchesForbidden(InnerTexts[i]))
            => CheckResult.tag = "Forbidden")

C23_EachInnerCommandChecked ==
    Checked =>
        LET anyForbidden == \E i \in 1..Len(InnerTexts) : MatchesForbidden(InnerTexts[i])
            anyDeny == \E i \in 1..Len(InnerTexts) : MatchesDeny(InnerTexts[i])
        IN  /\ CheckResult = Allowed <=> (~anyForbidden /\ ~anyDeny)
            /\ (anyDeny /\ ~anyForbidden) => CheckResult.tag = "RequiresApproval"
            /\ CheckedPolicy = SecurityPolicy(<<>>, <<>>) => CheckResult = Allowed
            /\ IF /\ Len(CheckedCommand) = 3
                  /\ CheckedCommand[1] \in Shells
                  /\ CheckedCommand[2] \in ShellFlags
                  /\ \A mark \in NotPlain : ~Contains(CheckedCommand[3], mark)
               THEN \A i \in 1..Len(InnerTexts) :
                       /\ Contains(CheckedCommand[3], InnerTexts[i])
                       /\ ~Contains(InnerTexts[i], "&&")
                       /\ ~Contains(InnerTexts[i], ";")
               ELSE InnerTexts = <<JoinWithSpace(CheckedCommand)>>

\* the script of the test: a denied push between two echo commands, the
\* pattern anchored at the start of the inner command
C23_Witness ==
    /\ Checked
    /\ CheckedCommand = <<"bash", "-lc", "echo hello && git push --force && echo done">>
    /\ CheckedPolicy = SecurityPolicy(<<GitPattern, ForcePushPattern>>, <<>>)
    /\ InnerTexts = <<"echo hello", "git push --force", "echo done">>
    /\ CheckResult = RequiresApproval("^git\\s+(push|reset)")

\* a script that is more than plain commands, checked as one command
C23_WitnessWhole ==
    /\ Checked
    /\ CheckedCommand = <<"bash", "-lc", "echo hi > rm.txt">>
    /\ InnerTexts = <<"bash -lc echo hi > rm.txt">>
    /\ CheckResult = RequiresApproval("rm")

----------------------------------------------------------------------------
(* Function calls in the streaming parser *)

IsMessageEvent(e) == IsAdded(e) \/ IsDelta(e) \/ IsMessageDone(e)

\* index of the last message event before position i, or 0
PreviousMessageEvent(s, i) ==
    LET earlier == { j \in 1..(i - 1) : IsMessageEvent(s[j]) }
    IN  IF earlier = {} THEN 0
        ELSE CHOOSE j \in earlier : \A k \in earlier : k <= j

\* C24: streaming parser: on a function-call fragment a pending assistant
\* message is first closed with OutputItemDone and the pending state becomes
\* none, then the call is emitted as one OutputItemDone with no
\* OutputItemAdded and no deltas; text after a function call opens a new
\* message with a new OutputItemAdded.
C24_FunctionCallClosesMessage ==
    SseProducer =>
        /\ \A i \in 1..Len(sent) :
              IsCallDone(sent[i]) =>
                 LET m == PreviousMessageEvent(sent, i)
                 IN  /\ m # 0 => IsMessageDone(sent[m])
                     /\ OpenMessages(Prefix(sent, i - 1)) = 0
                     /\ \A j \in (i + 1)..Len(sent) :
                           IsDelta(sent[j]) =>
                              \E k \in (i + 1)..(j - 1) :
                                  /\ IsAdded(sent[k])
                                  /\ sent[k].item = Message(<<>>)
        /\ \A i \in 1..Len(sent) : IsAdded(sent[i]) => sent[i].item.type = "Message"
        /\ Count(sent, IsCallDone) = function_call_counter
        /\ (sent # <<>> /\ IsCallDone(Last(sent))) => assistant_item = None

\* text, a function call, text in one chunk: the first message is closed
\* before the call and the second text opens a new message
C24_Witness ==
    /\ SseProducer
    /\ Len(polled) = 1
    /\ sent = << OutputItemAdded(Message(<<>>)),
                 OutputTextDelta("a"),
                 OutputItemDone(Message(<<OutputText("a")>>)),
                 OutputItemDone(SseFunctionCallItem(CallWeather, 1)),
                 OutputItemAdded(Message(<<>>)),
                 OutputTextDelta("b") >>
    /\ assistant_item = Some(Message(<<OutputText("b")>>))

\* a call ends the chunk that began with text: nothing is pending after it
C24_WitnessPendingNone ==
    /\ SseProducer
    /\ Len(sent) = 4
    /\ IsAdded(sent[1]) /\ IsDelta(sent[2]) /\ IsMessageDone(sent[3])
    /\ IsCallDone(sent[4])
    /\ assistant_item = None

RECURSIVE CallsOfParts(_)
CallsOfParts(parts) ==
    IF parts = <<>> THEN <<>>
    ELSE (IF HasCall(Head(parts)) THEN <<Unwrap(Head(parts).function_call)>> ELSE <<>>)
             \o CallsOfParts(Tail(parts))

RECURSIVE CallsOfCandidates(_)
CallsOfCandidates(cs) ==
    IF cs = <<>> THEN <<>>
    ELSE CallsOfParts(PartsOf(Head(cs))) \o CallsOfCandidates(Tail(cs))

RECURSIVE CallsOfPolls(_)
CallsOfPolls(ps) ==
    IF ps = <<>> THEN <<>>
    ELSE CallsOfCandidates(CandidatesOf(Head(ps))) \o CallsOfPolls(Tail(ps))

\* the function calls of the stream's input, in order: of the polled chunks
\* for the parser, of the response for the replay
InputCalls ==
    IF SseProducer THEN CallsOfPolls(polled)
    ELSE IF IsSome(response) THEN CallsOfCandidates(ResponseCandidates(Unwrap(response)))
    ELSE <<>>

\* the function-call items sent so far, in emission order
EmittedCalls == SelectSeq(sent, IsCallDone)

\* C25: streaming parser and batch replay: the k-th function call emitted in
\* one stream, counted across chunks and candidates, has call_id
\* gemini_call_k starting at 1, so the ids are unique and strictly
\* increasing in emission order; it carries the name of the k-th function
\* call of the input and its serialized args, "{}" when the args are absent.
C25_CallIdsCountUp ==
    (IsSome(chan) /\ sent # <<>>) =>
        LET emitted == EmittedCalls
            input == InputCalls
        IN  /\ Len(emitted) <= Len(input)
            /\ \A k \in 1..Len(emitted) :
                  /\ emitted[k].item.call_id = <<"gemini_call_", k>>
                  /\ emitted[k].item.name = input[k].name
                  /\ emitted[k].item.arguments =
                         IF input[k].args = None THEN "{}"
                         ELSE to_string(Unwrap(input[k].args))
            /\ \A j, k \in 1..Len(emitted) :
                  j < k => /\ emitted[j].item.call_id # emitted[k].item.call_id
                           /\ emitted[j].item.call_id[2] < emitted[k].item.call_id[2]

\* the parser numbers four calls across two chunks and two candidates; the
\* calls without args carry "{}"
C25_Witness ==
    /\ SseProducer
    /\ Len(polled) = 2
    /\ polled[1] = Json(CallsAcrossCandidates)
    /\ CallsOfPolls(<<polled[2]>>) = <<CallWeather>>
    /\ Len(EmittedCalls) = 4
    /\ EmittedCalls[2].item.arguments = "{}"
    /\ EmittedCalls[4].item.call_id = <<"gemini_call_", 4>>

\* the replay numbers the calls of two candidates 1, 2, 3
C25_WitnessBatch ==
    /\ BatchDone
    /\ response = Some(CallsAcrossCandidates)
    /\ Len(EmittedCalls) = 3
    /\ EmittedCalls[3].item.call_id = <<"gemini_call_", 3>>
    /\ EmittedCalls[3].item.arguments = "{}"

----------------------------------------------------------------------------
(* Usage metadata and finish reasons in the streaming parser *)

\* the Completed event of s, when s has exactly one
TheCompleted(s) == s[CHOOSE i \in Indices(s, IsCompleted) : TRUE]

\* C26: streaming parser: the Completed event carries the usage metadata of
\* the most recent chunk that had any, at or before the moment Completed is
\* emitted (the chunk with the STOP reason included), missing counters as 0
\* and the cached and reasoning counters 0; when no chunk carried usage
\* metadata the Completed event has no usage.
C26_CompletedCarriesLatestUsage ==
    [][ (pc = "sse" /\ Count(sent, IsCompleted) = 0 /\ Count(sent', IsCompleted) = 1) =>
          LET seen == LastSeenUsage(polled')
              usage == TheCompleted(sent').token_usage
          IN  /\ seen = None => usage = None
              /\ seen # None =>
                    /\ usage # None
                    /\ Unwrap(usage).input_tokens =
                           UnwrapOr(Unwrap(seen).prompt_token_count, 0)
                    /\ Unwrap(usage).output_tokens =
                           UnwrapOr(Unwrap(seen).candidates_token_count, 0)
                    /\ Unwrap(usage).total_tokens =
                           UnwrapOr(Unwrap(seen).total_token_count, 0)
                    /\ Unwrap(usage).cached_input_tokens = 0
                    /\ Unwrap(usage).reasoning_output_tokens = 0
      ]_vars

\* usage on the first chunk, other usage on the chunk with STOP: Completed
\* carries the second, its missing counters as 0
C26_Witness ==
    /\ SseProducer
    /\ Len(polled) = 2
    /\ polled[1] = Json(GeminiResponse(None, Some(Usage1)))
    /\ HasReason(polled[2], "STOP")
    /\ polled[2].value.usage_metadata = Some(Usage2)
    /\ Count(sent, IsCompleted) = 1
    /\ TheCompleted(sent).token_usage =
           Some([input_tokens |-> 0, output_tokens |-> 7, cached_input_tokens |-> 0,
                 reasoning_output_tokens |-> 0, total_tokens |-> 0])

\* usage on the first chunk only, STOP on the second: Completed carries it
C26_WitnessEarlier ==
    /\ SseProducer
    /\ Len(polled) = 2
    /\ polled[1] = Json(GeminiResponse(None, Some(Usage1)))
    /\ HasReason(polled[2], "STOP")
    /\ polled[2].value.usage_metadata = None
    /\ Count(sent, IsCompleted) = 1
    /\ TheCompleted(sent).token_usage # None
    /\ Unwrap(TheCompleted(sent).token_usage).total_tokens = 15

\* no chunk carried usage: Completed has none
C26_WitnessNone ==
    /\ SseProducer
    /\ Len(polled) = 2
    /\ LastSeenUsage(polled) = None
    /\ HasReason(polled[2], "STOP")
    /\ Count(sent, IsCompleted) = 1
    /\ TheCompleted(sent).token_usage = None

KnownReasons == {"STOP", "MAX_TOKENS", "SAFETY"}

HasOtherReason(candidate) ==
    IsSome(candidate.finish_reason) /\ Unwrap(candidate.finish_reason) \notin KnownReasons

\* the candidate without its finish reason when that is none of the known
WithoutOtherReason(candidate) ==
    IF HasOtherReason(candidate) THEN [candidate EXCEPT !.finish_reason = None]
    ELSE candidate

\* the polled event with the other finish reasons of its candidates removed
PollWithoutOtherReasons(p) ==
    IF p.kind = "json" /\ IsSome(p.value.candidates)
    THEN Json([p.value EXCEPT !.candidates =
                   Some([i \in 1..Len(Unwrap(@)) |-> WithoutOtherReason(Unwrap(@)[i])])])
    ELSE p

WithoutOtherReasons(ps) == [i \in 1..Len(ps) |-> PollWithoutOtherReasons(ps[i])]

\* C27: streaming parser: a finish reason other than STOP, MAX_TOKENS and
\* SAFETY is non-terminal: it emits no event, does not flush the pending
\* message, does not set the completed flag, and the parser goes on with
\* the remaining candidates and chunks: the run is that of the same input
\* without these finish reasons.
C27_OtherReasonNonTerminal ==
    [][ /\ (/\ PollStep({"json"})
            /\ Len(CandidatesOf(Last(polled'))) = 1
            /\ HasOtherReason(CandidatesOf(Last(polled'))[1])
            /\ PartsOf(CandidatesOf(Last(polled'))[1]) = <<>>)
           => /\ pc' = "sse"
              /\ UNCHANGED <<sent, assistant_item, completed_sent, function_call_counter>>
        /\ SseProducer' =>
              [out |-> sent', assistant_item |-> assistant_item',
               completed_sent |-> completed_sent', last_usage |-> last_usage',
               function_call_counter |-> function_call_counter',
               returned |-> (pc' = "done")]
                  = Run(Locals0, WithoutOtherReasons(polled'))
      ]_vars

\* text with an unknown finish reason, then text of a second candidate, then
\* a second chunk: one message stays open through the reason, nothing is
\* completed and the parser handles the next chunk
C27_Witness ==
    /\ SseProducer
    /\ pc = "sse"
    /\ Len(polled) = 2
    /\ Len(CandidatesOf(polled[1])) = 2
    /\ CandidatesOf(polled[1])[1].finish_reason = Some("RECITATION")
    /\ CandidatesOf(polled[2]) = <<GeminiCandidate(None, Some("RECITATION"))>>
    /\ sent = <<OutputItemAdded(Message(<<>>)), OutputTextDelta("a"), OutputTextDelta("b")>>
    /\ assistant_item = Some(Message(<<OutputText("a"), OutputText("b")>>))
    /\ ~completed_sent

----------------------------------------------------------------------------
(* The requests of one stream() call *)

\* the headers of a request of this call: the provider's, overridden by the
\* extra headers, the content-type forced, then the authorization
ExpectedHeaders ==
    [name \in DOMAIN headers \cup DOMAIN extra_headers \cup {"content-type"}
              \cup (IF IsSome(auth) THEN {"authorization"} ELSE {}) |->
        IF name = "authorization" /\ IsSome(auth) THEN "Bearer " \o Unwrap(auth)
        ELSE IF name = "content-type" THEN "application/json"
        ELSE IF name \in DOMAIN extra_headers THEN extra_headers[name]
        ELSE headers[name]]

ExpectedRequest ==
    [method |-> "POST", url |-> Unwrap(url), headers |-> ExpectedHeaders,
     body |-> request_body, timeout |-> None]

\* C28: every attempt made for one stream() call is sent with a request
\* freshly built by the factory, and all of them are identical: POST, the
\* same URL, the provider's headers overridden by the extra headers, the
\* content-type forced to application/json, then the auth headers, and the
\* same body; building or sending one attempt changes nothing a later
\* attempt reads.
C28_RequestsIdentical ==
    [][ /\ Len(requests') = Len(attempts')
        /\ \A i \in 1..Len(requests') : requests'[i] = ExpectedRequest'
        /\ \A i, j \in 1..Len(requests') : requests'[i] = requests'[j]
        /\ (pc = "client" /\ attempts # <<>>) =>
              /\ UNCHANGED <<url, headers, auth, request_body, extra_headers>>
              /\ Prefix(requests', Len(requests)) = requests
      ]_vars

\* a second attempt after a retried failure: both requests carry the call's
\* x-source over the provider's, the forced content-type over the call's,
\* and the bearer token
C28_Witness ==
    /\ Len(attempts) = 2
    /\ attempts[1].outcome # "ok"
    /\ Len(requests) = 2
    /\ requests[1] = requests[2]
    /\ headers # <<>>
    /\ headers["x-source"] = "provider"
    /\ extra_headers # <<>>
    /\ extra_headers["content-type"] = "text/plain"
    /\ requests[2].method = "POST"
    /\ requests[2].url = Unwrap(url)
    /\ requests[2].body = request_body
    /\ requests[2].headers["x-source"] = "call"
    /\ requests[2].headers["x-version"] = "1"
    /\ requests[2].headers["conversation_id"] = "c1"
    /\ requests[2].headers["content-type"] = "application/json"
    /\ requests[2].headers["authorization"] = "Bearer token"

----------------------------------------------------------------------------
(* Producer tasks and their channels *)

\* the call has returned to its caller
CallReturned == IsSome(stream_result) \/ SseProducer

\* one task was spawned, and its Sender feeds the channel of the call, of
\* the capacity of its kind
OneProducer(spawned, channel) ==
    /\ Len(spawned) = 1
    /\ channel = Some(spawned[1].channel)
    /\ spawned[1].run = "emit_gemini_events" => spawned[1].channel = 32
    /\ spawned[1].run = "process_gemini_sse" => spawned[1].channel = 1600

C29_WitnessSse ==
    /\ SseDone
    /\ tasks = <<ProducerTask("process_gemini_sse", 1600)>>
    /\ chan = Some(1600)
    /\ Len(sent) >= 3

\* stream() returned an error: no channel, no task
C29_WitnessFailed ==
    /\ ResultIsErr
    /\ pc = "failed"
    /\ tasks = <<>>
    /\ chan = None

----------------------------------------------------------------------------
(* Two calls served at once: the producers and the consumers *)

\* what the producers of the two calls poll and replay
ConcPolls == {CallChunk, StopChunk, EndOfStream}
ConcResponses == {CallsAcrossCandidates, StopChunk.value}

\* the locals with one function-call counter for the whole process
TaskLocals_shared_counter(all, i) ==
    [assistant_item |-> all[i].assistant_item,
     completed_sent |-> all[i].completed_sent,
     last_usage |-> all[i].last_usage,
     function_call_counter |->
         all[1].function_call_counter + all[2].function_call_counter,
     out |-> <<>>, returned |-> FALSE]

\* the locals of process_gemini_sse in the task of call i
TaskLocals(all, i) ==
    [assistant_item |-> all[i].assistant_item,
     completed_sent |-> all[i].completed_sent,
     last_usage |-> all[i].last_usage,
     function_call_counter |-> all[i].function_call_counter,
     out |-> <<>>, returned |-> FALSE]

\* the task of call i after one iteration on the poll p that ended in st
AfterIteration(all, i, p, st) ==
    [all EXCEPT ![i] =
        [@ EXCEPT !.polled = Append(@, p),
                  !.assistant_item = st.assistant_item,
                  !.completed_sent = st.completed_sent,
                  !.last_usage = st.last_usage,
                  !.function_call_counter = st.function_call_counter,
                  !.queue = @ \o st.out,
                  !.pc = IF st.returned THEN "done" ELSE "sse"]]

\* every variable but streams
otherVars ==
    <<pc, sseVars, function_call_counter, sent, chan, clientVars, builderVars,
      denyVars, chanVars, tasks>>

\* spawn_gemini_stream for one of the calls
ConcSpawnSse ==
    /\ \E i \in StreamIds :
          /\ streams[i].pc = "start"
          /\ streams' = [streams EXCEPT ![i].kind = "sse", ![i].pc = "sse"]
    /\ UNCHANGED otherVars

\* stream() for one of the calls, up to the spawn of its producer task
ConcStream ==
    /\ \E i \in StreamIds, r \in ConcResponses :
          /\ streams[i].pc = "start"
          /\ streams' = [streams EXCEPT ![i].kind = "batch", ![i].pc = "batch",
                                        ![i].response = Some(r)]
    /\ UNCHANGED otherVars

\* the parser of one of the calls handles a poll
ConcPoll ==
    /\ \E i \in StreamIds, p \in ConcPolls :
          /\ streams[i].pc = "sse"
          /\ p = EndOfStream \/ Len(streams[i].polled) < MaxChunks
          /\ streams' = AfterIteration(streams, i, p,
                                       HandlePoll(TaskLocals(streams, i), p))
    /\ UNCHANGED otherVars

\* the replay task of one of the calls runs emit_gemini_events
ConcEmit ==
    /\ \E i \in StreamIds :
          /\ streams[i].pc = "batch"
          /\ LET bt == emit_gemini_events(Unwrap(streams[i].response))
             IN  streams' = [streams EXCEPT
                                ![i].queue = @ \o bt.out,
                                ![i].function_call_counter = bt.function_call_counter,
                                ![i].pc = "done"]
    /\ UNCHANGED otherVars

\* the consumer of one of the calls receives the next item of its channel
ConcRecv ==
    /\ \E i \in StreamIds :
          /\ streams[i].queue # <<>>
          /\ streams' = [streams EXCEPT ![i].received = Append(@, Head(streams[i].queue)),
                                        ![i].queue = Tail(@)]
    /\ UNCHANGED otherVars

ConcNext ==
    \/ ConcSpawnSse
    \/ ConcStream
    \/ ConcPoll
    \/ ConcEmit
    \/ ConcRecv

ConcSpec == Init /\ [][ConcNext]_vars

\* the items the producer of a call has sent: received or still buffered
SentOf(call) == call.received \o call.queue

\* the call served alone: the parser run over its polls, the replay of its
\* response
AloneSse(call) == Run(Locals0, call.polled)
AloneBatch(call) == emit_gemini_events(Unwrap(call.response))

\* the state of a call is that of the call served alone on the same input
AsAlone(call) ==
    /\ call.kind = "sse" =>
          LET alone == AloneSse(call)
          IN  /\ SentOf(call) = alone.out
              /\ call.assistant_item = alone.assistant_item
              /\ call.completed_sent = alone.completed_sent
              /\ call.last_usage = alone.last_usage
              /\ call.function_call_counter = alone.function_call_counter
    /\ (call.kind = "batch" /\ call.pc = "done") =>
          LET alone == AloneBatch(call)
          IN  /\ SentOf(call) = alone.out
              /\ call.function_call_counter = alone.function_call_counter
    /\ LET calls == SelectSeq(SentOf(call), IsCallDone)
       IN  \A k \in 1..Len(calls) : calls[k].item.call_id = <<"gemini_call_", k>>

\* C30: concurrent streams are independent: for any interleaving of two
\* producers serving different calls, the event sequence each consumer
\* receives depends only on that call's own input and equals the sequence
\* produced when the stream runs alone; the function-call counter, the
\* pending message, the completed flag and the last usage are per stream,
\* so each stream numbers its function calls from gemini_call_1.
C30_StreamsIndependent ==
    \A i \in StreamIds : AsAlone(streams[i])

\* two parsers under way at once, each with a function call behind it, one
\* with a message pending, one after its Completed: both consumers have
\* received gemini_call_1
C30_Witness ==
    /\ streams[1].kind = "sse" /\ streams[1].pc = "sse"
    /\ streams[2].kind = "sse" /\ streams[2].pc = "sse"
    /\ streams[1].polled = <<CallChunk>>
    /\ streams[2].polled = <<CallChunk, StopChunk>>
    /\ streams[1].function_call_counter = 1
    /\ streams[2].function_call_counter = 1
    /\ \E k \in 1..Len(streams[1].received) :
          /\ IsCallDone(streams[1].received[k])
          /\ streams[1].received[k].item.call_id = <<"gemini_call_", 1>>
    /\ \E k \in 1..Len(streams[2].received) :
          /\ IsCallDone(streams[2].received[k])
          /\ streams[2].received[k].item.call_id = <<"gemini_call_", 1>>
    /\ streams[1].assistant_item # None /\ ~streams[1].completed_sent
    /\ streams[2].assistant_item = None /\ streams[2].completed_sent

\* a replay and a parser at once: the replay numbered three calls, the
\* parser its own one, and the parser completed with its own usage
C30_WitnessMixed ==
    /\ streams[1].kind = "batch" /\ streams[1].pc = "done"
    /\ streams[1].function_call_counter = 3
    /\ streams[2].kind = "sse" /\ streams[2].pc = "done"
    /\ streams[2].polled = <<CallChunk, StopChunk, EndOfStream>>
    /\ streams[2].function_call_counter = 1
    /\ streams[1].queue = <<>>
    /\ streams[2].queue = <<>>
    /\ \E k \in 1..Len(streams[2].received) :
          /\ IsCompleted(streams[2].received[k])
          /\ streams[2].received[k].token_usage # None
    /\ \E k \in 1..Len(streams[1].received) :
          /\ IsCompleted(streams[1].received[k])
          /\ streams[1].received[k].token_usage = None

----------------------------------------------------------------------------
(* Function call outputs in the request *)

\* the call_id of the output input[i] is that of no function call of input
Unmatched(input, i) ==
    \A j \in 1..Len(input) :
        input[j].type = "FunctionCall" => input[j].call_id # input[i].call_id

\* the text parts of the content items of an output, in their order
RECURSIVE TextPartsOf(_)
TextPartsOf(items) ==
    IF items = <<>> THEN <<>>
    ELSE (IF Head(items).type = "InputText"
          THEN <<[text |-> Head(items).text]>> ELSE <<>>)
         \o TextPartsOf(Tail(items))

\* C31: the build succeeds and every function call output of the input has
\* its entry in contents: role "user", one functionResponse part; the name
\* is "unknown" when no function call of the input has its call_id; the
\* response of an output with content items is the text parts of its items
\* in their order, the images left out; the response of an output without
\* content items embeds its content string.
C31_UnmatchedOutputKept ==
    Built =>
        /\ Unwrap(request).tag = "Ok"
        /\ \A i \in 1..Len(BuiltPrompt.input) :
              BuiltPrompt.input[i].type = "FunctionCallOutput" =>
                  LET item == BuiltPrompt.input[i]
                      entry == BuiltContents[EntryOf(BuiltPrompt.input, i)]
                  IN  /\ EntryOf(BuiltPrompt.input, i) \in 1..Len(BuiltContents)
                      /\ entry.role = "user"
                      /\ Len(entry.parts) = 1
                      /\ DOMAIN entry.parts[1] = {"functionResponse"}
                      /\ Unmatched(BuiltPrompt.input, i)
                            => entry.parts[1].functionResponse.name = "unknown"
                      /\ entry.parts[1].functionResponse.response =
                            IF item.output.content_items # <<>>
                            THEN [parts |-> TextPartsOf(item.output.content_items[1])]
                            ELSE [output |-> item.output.content]

\* an output of a single string that answers no call, then an output of
\* two texts around an image that answers no call either
C31_Witness ==
    /\ Built
    /\ Len(BuiltPrompt.input) = 2
    /\ BuiltPrompt.input[1] =
           FunctionCallOutput("call_9", FunctionCallOutputPayload("lost", <<>>))
    /\ BuiltPrompt.input[2].type = "FunctionCallOutput"
    /\ BuiltPrompt.input[2].call_id = "call_2"
    /\ Len(BuiltContents) = 2
    /\ BuiltContents[1].parts[1].functionResponse =
           [name |-> "unknown", response |-> [output |-> "lost"]]
    /\ BuiltContents[2].parts[1].functionResponse =
           [name |-> "unknown",
            response |-> [parts |-> <<[text |-> "a"], [text |-> ""]>>]]

----------------------------------------------------------------------------
(* The shape of contents *)

\* the content parts of a message that the vendor format has a part for
KeptParts(content) == { k \in 1..Len(content) : KeepsPart(content[k]) }

\* the entry is that of the item: of its kind, a message entry with one
\* part for each content part kept, a function call entry with the name of
\* the call, an output entry with one functionResponse part
EntryIsOf(entry, item) ==
    /\ EntryKind(entry) = item.type
    /\ item.type = "Message" =>
          /\ Len(entry.parts) = Cardinality(KeptParts(item.content))
          /\ Len(entry.parts) >= 1
          /\ \A k \in 1..Len(entry.parts) :
                 \E key \in {"text", "inlineData", "fileData"} :
                     DOMAIN entry.parts[k] = {key}
    /\ item.type = "FunctionCall" =>
          /\ Len(entry.parts) = 1
          /\ entry.parts[1].functionCall.name = item.name
    /\ item.type = "FunctionCallOutput" =>
          /\ Len(entry.parts) = 1
          /\ DOMAIN entry.parts[1] = {"functionResponse"}

\* C32: contents holds, in input order, one entry for each message that
\* keeps at least one content part (empty texts and data URLs without a
\* comma being removed), one for each function call and one for each
\* function call output, and nothing else: the j-th entry is that of the
\* j-th such item, and a message whose parts are all removed has none.
C32_ContentsShape ==
    Built =>
        LET input == BuiltPrompt.input
            kept == { i \in 1..Len(input) :
                        \/ input[i].type \in {"FunctionCall", "FunctionCallOutput"}
                        \/ /\ input[i].type = "Message"
                           /\ KeptParts(input[i].content) # {} }
        IN  /\ Len(BuiltContents) = Cardinality(kept)
            /\ \A i \in kept :
                  EntryIsOf(BuiltContents[Cardinality({ j \in kept : j <= i })],
                            input[i])

\* a message of one data URL without a comma, then a message of four parts
\* of which two are kept: one entry of two parts
C32_Witness ==
    /\ Built
    /\ Len(BuiltPrompt.input) = 2
    /\ BuiltPrompt.input[1] = InputMessage("user", <<InputImage(DataUrlNoComma)>>)
    /\ BuiltPrompt.input[2].type = "Message"
    /\ Len(BuiltPrompt.input[2].content) = 4
    /\ BuiltContents =
           <<[role |-> "model", parts |-> <<[text |-> "Hi"], [text |-> "there"]>>]>>

\* a function call output, then a message: two entries in that order
C32_WitnessOrder ==
    /\ Built
    /\ Len(BuiltPrompt.input) = 2
    /\ BuiltPrompt.input[1].type = "FunctionCallOutput"
    /\ BuiltPrompt.input[2] = InputMessage("user", Hello)
    /\ Len(BuiltContents) = 2
    /\ EntryKind(BuiltContents[1]) = "FunctionCallOutput"
    /\ BuiltContents[2] = [role |-> "user", parts |-> <<[text |-> "Hello"]>>]

----------------------------------------------------------------------------
(* Errors end the stream *)

\* an Err item has been sent on the stream
ErrSent(s) == \E i \in 1..Len(s) : IsErr(s[i])

\* C33: on the stream of the streaming parser and on that of the batch
\* replay, every step keeps the items sent before it; at most one Err is
\* sent, it is the last item and the producer has terminated; once an Err
\* has been sent no step sends anything more.
C33_ErrorIsTerminal ==
    [][ IsSome(chan') =>
           /\ Len(sent') >= Len(sent)
           /\ Prefix(sent', Len(sent)) = sent
           /\ \A i \in 1..Len(sent') :
                 IsErr(sent'[i]) => (i = Len(sent') /\ pc' = "done")
           /\ ErrSent(sent) => (sent' = sent /\ pc' = pc)
      ]_vars

\* the parser had sent a delta when a chunk of two candidates came, the
\* first with MAX_TOKENS: the items sent before stay, the second candidate
\* is not looked at
C33_Witness ==
    /\ SseDone
    /\ Len(polled) = 2
    /\ Len(CandidatesOf(polled[2])) = 2
    /\ FirstFatal(CandidatesOf(polled[2])) = 1
    /\ HasReason(polled[2], "MAX_TOKENS")
    /\ Len(sent) >= 4
    /\ IsDelta(sent[2])
    /\ Last(sent) = Err(ContextWindowExceeded)
    /\ Count(sent, IsErr) = 1

\* the batch replay of two candidates, the first blocked: the error is the
\* only item
C33_WitnessBatch ==
    /\ BatchDone
    /\ IsSome(response)
    /\ Len(ResponseCandidates(Unwrap(response))) = 2
    /\ ResponseCandidates(Unwrap(response))[1].finish_reason = Some("SAFETY")
    /\ sent = <<Err(StreamError(SafetyMessage))>>

\* a transport error after a message was opened
C33_WitnessTransport ==
    /\ SseDone
    /\ Last(polled) = TransportFailed
    /\ Len(sent) = 3
    /\ IsAdded(sent[1])
    /\ IsErr(sent[3])

----------------------------------------------------------------------------
(* Delivery over the bounded channel *)

\* the items the producer's code sends for what it has read so far
Produced ==
    IF SseProducer THEN Run(Locals0, polled).out
    ELSE emit_gemini_events(Unwrap(response)).out

\* the producer is at a send and the channel is full
BlockedOnSend ==
    /\ rx = "alive"
    /\ outbox # <<>>
    /\ Len(queue) = Unwrap(chan)

\* while the receiver is alive: what the consumer has received, then what
\* is queued, then what the producer has still to send, is what the
\* producer's code sends, in its order; nothing was discarded; the queue
\* holds no more than the capacity of the channel
DeliveredInOrder ==
    (IsSome(chan) /\ rx = "alive") =>
        /\ received \o queue \o outbox = Produced
        /\ sent = received \o queue
        /\ discarded = <<>>
        /\ Len(queue) <= Unwrap(chan)

\* a step of the consumer takes the head of the queue and only that; a
\* producer blocked on a send stays where it is until the consumer
\* receives or drops the receiver, and a send that completes with the
\* receiver alive had room before it
ChannelSteps ==
    /\ (rx = "alive" /\ rx' = "alive" /\ received' # received) =>
          /\ queue # <<>>
          /\ received' = Append(received, Head(queue))
          /\ queue' = Tail(queue)
          /\ UNCHANGED <<outbox, sent, pc>>
    /\ BlockedOnSend =>
          /\ UNCHANGED <<outbox, sent, pc, polled>>
          /\ \/ rx' = "dropped"
             \/ received' = Append(received, Head(queue))
    /\ (rx = "alive" /\ SendStep) =>
          /\ Len(queue) < Unwrap(chan)
          /\ queue' = Append(queue, Head(outbox))
          /\ UNCHANGED received

\* C34: while the receiver is alive, in every interleaving of the sends of
\* the producer and the receives of the consumer, the consumer receives
\* the items the producer sends, in their order, none lost and none twice;
\* the number of queued items never exceeds the capacity of the channel; a
\* producer at a send on a full channel waits and goes on only after the
\* consumer has received an item or dropped the receiver.
C34_BoundedChannelDelivery ==
    /\ []DeliveredInOrder
    /\ [][ChannelSteps]_vars

\* the batch producer waits on the full channel, the consumer having
\* received items in between
C34_Witness ==
    /\ BatchProducer
    /\ BlockedOnSend
    /\ Len(received) = 3
    /\ Len(queue) = BatchChannelCapacity
    /\ Len(outbox) = Len(Produced) - BatchChannelCapacity - 3

\* the consumer has received every item of a replay longer than the
\* channel, the Completed last
C34_WitnessAll ==
    /\ BatchProducer
    /\ pc = "done"
    /\ rx = "alive"
    /\ queue = <<>>
    /\ Len(received) > BatchChannelCapacity
    /\ received = Produced
    /\ IsCompleted(Last(received))

\* the parser's items received one behind the sends
C34_WitnessSse ==
    /\ SseProducer
    /\ rx = "alive"
    /\ Len(polled) = 2
    /\ Len(received) = 4
    /\ Len(queue) = 1
    /\ outbox # <<>>

====
